---- MODULE Spec2Model ----
(***************************************************************************)
(* A model of the DoH / ECH probe of src/src/worker.ts: the Query Executor *)
(* (performDohRequest, performHttpsRequest, fetchDohAnswer,                *)
(* fetchHttpsRecord), the Failure Combiner (combineDohFailures,            *)
(* combineEchFailures) and the Comparison Engine (runDohCheck,             *)
(* runDohEchComparison, runEchCheck, computeEchMatch).                     *)
(*                                                                         *)
(* Conventions.                                                            *)
(*  - A JavaScript string is a sequence of tokens (Text).  A message the   *)
(*    code holds as a literal is one token, named after the line that      *)
(*    holds it (the literals of the source are Chinese; the tokens here    *)
(*    are their English renderings).  A string the code inspects character *)
(*    by character (an HTTPS record) is a sequence of one-character        *)
(*    tokens.  Concatenation is \o.                                        *)
(*  - `number | null` is an integer, null being NullNum.                   *)
(*  - An optional error (`error?: string`) is a Text, <<>> standing for    *)
(*    undefined: every place of the code that sets an error sets a         *)
(*    non-empty one.                                                       *)
(*  - A call that may throw yields [thrown, val, err].                     *)
(***************************************************************************)
EXTENDS Integers, Sequences, FiniteSets, TLC

\* ------------------------------------------------------------ bounds
\* The number of distinct IP addresses a resolver may answer with.
NumIps == 2
\* The number of distinct ECH configurations a resolver may answer with.
NumEchConfigs == 2
\* The longest Answer array of a JSON body / answer section of a wire body.
MaxAnswers == 2

\* The longest message handed to readDnsName.
MaxMessageLen == 5
\* The longest host name made of every combination of DomainChars.
MaxDomainLen == 3
\* The largest number of parameters of an HTTPS record.
MaxParams == 2

\* ------------------------------------------------------------ values
\* null of `number | null` (status, latency_ms).
NullNum == -1
\* null of `string | null` (content_type, an ECH config string).
NullStr == <<"null">>
\* undefined of `record?: string`.
NoRecord == <<"undefined">>

ProviderKey == {"target", "cloudflare", "google"}
References == {"cloudflare", "google"}
Modes == <<"json", "wire">>

Range(s) == {s[i] : i \in DOMAIN s}

\* Array.from(new Set(list)): the first occurrence of each element, in order.
RECURSIVE Dedup(_)
Dedup(s) ==
  IF s = <<>> THEN <<>>
  ELSE LET front == Dedup(SubSeq(s, 1, Len(s) - 1))
           last == s[Len(s)]
       IN IF last \in Range(front) THEN front ELSE Append(front, last)

\* results.flatMap(f)
RECURSIVE Flatten(_)
Flatten(ss) == IF ss = <<>> THEN <<>> ELSE Head(ss) \o Flatten(Tail(ss))

\* list.find(pred): the index of the first element in Sel, 0 if none.
FirstIndex(s, Sel(_)) ==
  IF \E i \in DOMAIN s : Sel(s[i])
  THEN CHOOSE i \in DOMAIN s : Sel(s[i]) /\ \A j \in 1..(i - 1) : ~Sel(s[j])
  ELSE 0

\* [...list].reverse().find(pred): the index of the last element in Sel, 0 if none.
LastIndex(s, Sel(_)) ==
  IF \E i \in DOMAIN s : Sel(s[i])
  THEN CHOOSE i \in DOMAIN s : Sel(s[i]) /\ \A j \in (i + 1)..Len(s) : ~Sel(s[j])
  ELSE 0

Return(v) == [thrown |-> FALSE, val |-> v, err |-> <<>>]
Throw(e) == [thrown |-> TRUE, val |-> <<>>, err |-> e]

\* ------------------------------------------------------------ messages
MsgNoARecordJson == <<"no valid A record found in the response">>
MsgNoARecordWire == <<"no valid A/AAAA record found in the response">>
MsgJsonParsePrefix == <<"failed to parse the JSON response: ">>
MsgWireParsePrefix == <<"failed to parse the DNS wire message: ">>
MsgTextPrefix == <<"the server returned a text response: ">>
MsgTextEmpty == <<"the server returned a text response">>
MsgDohFailed == <<"DoH query failed">>
MsgUnknownError == <<"unknown error">>
MsgJoin == <<" | ">>
MsgEllipsis == <<"...">>

\* What the platform throws (Error objects, by their message).
ErrTimeout == <<"The operation was aborted due to timeout">>
ErrNetwork == <<"Network connection lost">>
ErrBodyRead == <<"body stream interrupted">>
ErrJsonSyntax == <<"Unexpected token in JSON">>
ErrInvalidUrl == <<"Invalid URL">>
ErrEmptyDomain == <<"the domain must not be empty">>
ErrLabelTooLong == <<"domain label too long">>
ErrDnsName == <<"DNS name out of message range">>

\* normalizeErrorMessage(error): every value thrown in this program is an Error,
\* given here by its kind and message.
normalizeErrorMessage(error) ==
  IF error.kind = "nullish" THEN MsgUnknownError
  ELSE IF error.kind = "string" THEN error.message
  ELSE IF error.kind = "Error" THEN error.message
  ELSE <<"JSON.stringify(error)">>

Error(message) == [kind |-> "Error", message |-> message]

\* ------------------------------------------------------------ characters
UpperCase == <<"A", "B", "C", "D", "E", "F", "G", "H", "I", "J", "K", "L", "M",
               "N", "O", "P", "Q", "R", "S", "T", "U", "V", "W", "X", "Y", "Z">>
LowerCase == <<"a", "b", "c", "d", "e", "f", "g", "h", "i", "j", "k", "l", "m",
               "n", "o", "p", "q", "r", "s", "t", "u", "v", "w", "x", "y", "z">>

\* One character, lower-cased (the regular expression's i flag).
ToLowerTable ==
  [c \in Range(UpperCase) |->
     LowerCase[CHOOSE i \in DOMAIN UpperCase : UpperCase[i] = c]]

ToLower(c) == IF c \in DOMAIN ToLowerTable THEN ToLowerTable[c] ELSE c

\* Whether pat stands in s at index i, exactly / ignoring case.
MatchAt(s, i, pat) ==
  /\ i >= 1
  /\ i + Len(pat) - 1 <= Len(s)
  /\ \A k \in DOMAIN pat : s[i + k - 1] = pat[k]

MatchAtIgnoreCase(s, i, pat) ==
  /\ i >= 1
  /\ i + Len(pat) - 1 <= Len(s)
  /\ \A k \in DOMAIN pat : ToLower(s[i + k - 1]) = ToLower(pat[k])

\* s.includes(pat)
Includes(s, pat) == \E i \in 1..(Len(s) - Len(pat) + 1) : MatchAt(s, i, pat)

\* s.toLowerCase()
toLowerCase(s) == [i \in DOMAIN s |-> ToLower(s[i])]

\* ------------------------------------------------------------ content types
NullCt == "null"

\* The Content-Type headers of the responses, with their characters.
ContentTypeChars ==
  "application/dns-json" :>
     <<"a", "p", "p", "l", "i", "c", "a", "t", "i", "o", "n", "/", "d", "n",
       "s", "-", "j", "s", "o", "n">> @@
  "application/json" :>
     <<"a", "p", "p", "l", "i", "c", "a", "t", "i", "o", "n", "/", "j", "s",
       "o", "n">> @@
  "Application/JSON; charset=utf-8" :>
     <<"A", "p", "p", "l", "i", "c", "a", "t", "i", "o", "n", "/", "J", "S",
       "O", "N", ";", " ", "c", "h", "a", "r", "s", "e", "t", "=", "u", "t",
       "f", "-", "8">> @@
  "text/json" :>
     <<"t", "e", "x", "t", "/", "j", "s", "o", "n">> @@
  "text/html" :>
     <<"t", "e", "x", "t", "/", "h", "t", "m", "l">> @@
  "text/plain" :>
     <<"t", "e", "x", "t", "/", "p", "l", "a", "i", "n">> @@
  "application/text" :>
     <<"a", "p", "p", "l", "i", "c", "a", "t", "i", "o", "n", "/", "t", "e",
       "x", "t">> @@
  "application/dns-message" :>
     <<"a", "p", "p", "l", "i", "c", "a", "t", "i", "o", "n", "/", "d", "n",
       "s", "-", "m", "e", "s", "s", "a", "g", "e">>

ContentTypes == DOMAIN ContentTypeChars \cup {NullCt}

StrApplicationDnsJson ==
  <<"a", "p", "p", "l", "i", "c", "a", "t", "i", "o", "n", "/", "d", "n",
    "s", "-", "j", "s", "o", "n">>
StrApplicationJson ==
  <<"a", "p", "p", "l", "i", "c", "a", "t", "i", "o", "n", "/", "j", "s",
    "o", "n">>
StrTextJson ==
  <<"t", "e", "x", "t", "/", "j", "s", "o", "n">>
StrTextSlash ==
  <<"t", "e", "x", "t", "/">>
StrApplicationText ==
  <<"a", "p", "p", "l", "i", "c", "a", "t", "i", "o", "n", "/", "t", "e",
    "x", "t">>
StrTextPlain ==
  <<"t", "e", "x", "t", "/", "p", "l", "a", "i", "n">>

\* The headers isJsonContentType accepts (lines 1004-1005).
JsonContentTypes ==
  {ct \in DOMAIN ContentTypeChars :
     \/ Includes(toLowerCase(ContentTypeChars[ct]), StrApplicationDnsJson)
     \/ Includes(toLowerCase(ContentTypeChars[ct]), StrApplicationJson)
     \/ Includes(toLowerCase(ContentTypeChars[ct]), StrTextJson)}

isJsonContentType(contentType) ==
  IF contentType = NullCt THEN FALSE ELSE contentType \in JsonContentTypes

\* The headers with "text/" in them.
TextSlashContentTypes ==
  {ct \in DOMAIN ContentTypeChars :
     Includes(toLowerCase(ContentTypeChars[ct]), StrTextSlash)}

\* A test for text that knows "text/" only.
isTextContentTypeTextSlashOnly(contentType) ==
  IF contentType = NullCt THEN FALSE ELSE contentType \in TextSlashContentTypes

\* The headers isTextContentType accepts (lines 884-885).
TextContentTypes ==
  {ct \in DOMAIN ContentTypeChars :
     \/ Includes(toLowerCase(ContentTypeChars[ct]), StrTextSlash)
     \/ Includes(toLowerCase(ContentTypeChars[ct]), StrApplicationText)
     \/ Includes(toLowerCase(ContentTypeChars[ct]), StrTextPlain)}

isTextContentType(contentType) ==
  IF contentType = NullCt THEN FALSE ELSE contentType \in TextContentTypes

\* response.ok
ResponseOk(status) == status \in 200..299

\* ------------------------------------------------------------ request URLs
\* A domain name, by how the wire-query builder takes it.
DomainClasses == {"ok", "empty", "longlabel"}

\* new URL(endpoint)
NewUrl(endpointValid) ==
  IF endpointValid THEN Return(<<>>) ELSE Throw(Error(ErrInvalidUrl))

buildDohJsonUrl(endpointValid, name) == NewUrl(endpointValid)

\* A wire URL built without looking at the name.
buildDohWireUrlUnvalidated(endpointValid, name) == NewUrl(endpointValid)

\* recordTypeToNumber, normalizeDomain and buildDnsQueryMessage run before
\* new URL(endpoint); the record types of this program ("A", "65") are supported.
buildDohWireUrl(endpointValid, name) ==
  IF name = "empty" THEN Throw(Error(ErrEmptyDomain))
  ELSE IF name = "longlabel" THEN Throw(Error(ErrLabelTooLong))
  ELSE NewUrl(endpointValid)

BuildUrl(endpointValid, name, mode) ==
  IF mode = "json" THEN buildDohJsonUrl(endpointValid, name)
  ELSE buildDohWireUrl(endpointValid, name)

\* ------------------------------------------------------------ A-record attempts
Ips == 1..NumIps
\* The `data` of one answer: an IP literal, or 0 for anything else.
AnswerData == 0..NumIps
AnswerLists == UNION {[1..n -> AnswerData] : n \in 0..MaxAnswers}

\* extractIpsFromAnswer / extractIpsFromDnsMessage on a well-formed body: the
\* addresses among the answers, through a Set.
extractIps(answers) == Dedup(SelectSeq(answers, LAMBDA d : d \in Ips))

\* text.length > 200 ? `${text.slice(0, 200)}...` : text.  A body text is
\* [head, long]: its first 200 characters (all of it when it is no longer) and
\* whether more follow.
Snippet(text) == IF text.long THEN text.head \o MsgEllipsis ELSE text.head

RawUndefined == [kind |-> "undefined", text |-> <<>>]
RawNull == [kind |-> "null", text |-> <<>>]
RawJson == [kind |-> "json", text |-> <<>>]
RawDnsMessage == [kind |-> "dns-message", text |-> <<>>]
RawText(t) == [kind |-> "string", text |-> t]

\* The object of lines 362-371 and 466-475.
DohAttemptError(mode, error) ==
  [mode |-> mode, status |-> NullNum, ok |-> FALSE, ips |-> <<>>,
   latency_ms |-> NullNum, response_format |-> "unknown",
   content_type |-> NullCt, raw |-> RawUndefined,
   error |-> normalizeErrorMessage(error)]

\* A response body is [readable, json, wire, text]: whether reading it
\* succeeds, what response.json() makes of it ([ok, answers]: whether it
\* parses, and the data of its Answer array), what the wire decoder makes of
\* it, and its text.
\* Lines 388-417: the JSON decode path.
DohJsonPath(mode, resp) ==
  IF resp.body.readable /\ resp.body.json.ok
  THEN LET ips == extractIps(resp.body.json.answers)
           ok == ResponseOk(resp.status) /\ Len(ips) > 0
       IN [mode |-> mode, status |-> resp.status, ok |-> ok, ips |-> ips,
           latency_ms |-> resp.latency, response_format |-> "json",
           content_type |-> resp.ctype, raw |-> RawJson,
           error |-> IF ok THEN <<>> ELSE MsgNoARecordJson]
  ELSE [mode |-> mode, status |-> resp.status, ok |-> FALSE, ips |-> <<>>,
        latency_ms |-> resp.latency, response_format |-> "json",
        content_type |-> resp.ctype, raw |-> RawNull,
        error |-> MsgJsonParsePrefix \o normalizeErrorMessage(
                    Error(IF resp.body.readable THEN ErrJsonSyntax ELSE ErrBodyRead))]

\* Lines 419-433: the text path; response.text() may throw.
DohTextPath(mode, resp) ==
  IF ~resp.body.readable THEN Throw(Error(ErrBodyRead))
  ELSE LET snippet == Snippet(resp.body.text)
       IN Return([mode |-> mode, status |-> resp.status, ok |-> FALSE, ips |-> <<>>,
                  latency_ms |-> resp.latency, response_format |-> "text",
                  content_type |-> resp.ctype, raw |-> RawText(snippet),
                  error |-> IF snippet # <<>> THEN MsgTextPrefix \o snippet
                            ELSE MsgTextEmpty])

\* A wire decode path that takes any response with an address for a success,
\* whatever its status.
DohWirePathAnyStatus(mode, resp) ==
  IF ~resp.body.readable THEN Throw(Error(ErrBodyRead))
  ELSE IF resp.body.wire.ok
  THEN LET ips == extractIps(resp.body.wire.answers)
           ok == Len(ips) > 0
       IN Return([mode |-> mode, status |-> resp.status, ok |-> ok, ips |-> ips,
                  latency_ms |-> resp.latency, response_format |-> "wire",
                  content_type |-> resp.ctype, raw |-> RawDnsMessage,
                  error |-> IF ok THEN <<>> ELSE MsgNoARecordWire])
  ELSE Return([mode |-> mode, status |-> resp.status, ok |-> FALSE, ips |-> <<>>,
               latency_ms |-> resp.latency, response_format |-> "wire",
               content_type |-> resp.ctype, raw |-> RawDnsMessage,
               error |-> MsgWireParsePrefix \o normalizeErrorMessage(Error(ErrDnsName))])

\* Lines 435-464: the wire decode path; response.arrayBuffer() may throw, a
\* throw of extractIpsFromDnsMessage is caught.
DohWirePath(mode, resp) ==
  IF ~resp.body.readable THEN Throw(Error(ErrBodyRead))
  ELSE IF resp.body.wire.ok
  THEN LET ips == extractIps(resp.body.wire.answers)
           ok == ResponseOk(resp.status) /\ Len(ips) > 0
       IN Return([mode |-> mode, status |-> resp.status, ok |-> ok, ips |-> ips,
                  latency_ms |-> resp.latency, response_format |-> "wire",
                  content_type |-> resp.ctype, raw |-> RawDnsMessage,
                  error |-> IF ok THEN <<>> ELSE MsgNoARecordWire])
  ELSE Return([mode |-> mode, status |-> resp.status, ok |-> FALSE, ips |-> <<>>,
               latency_ms |-> resp.latency, response_format |-> "wire",
               content_type |-> resp.ctype, raw |-> RawDnsMessage,
               error |-> MsgWireParsePrefix \o normalizeErrorMessage(Error(ErrDnsName))])

\* Lines 380-464: the body of the outer try.
DohRequestTry(mode, resp) ==
  IF resp.fetch = "timeout" THEN Throw(Error(ErrTimeout))
  ELSE IF resp.fetch = "network" THEN Throw(Error(ErrNetwork))
  ELSE IF isJsonContentType(resp.ctype) THEN Return(DohJsonPath(mode, resp))
  ELSE IF isTextContentType(resp.ctype) THEN DohTextPath(mode, resp)
  ELSE DohWirePath(mode, resp)

\* A performDohRequest without its outer catch.
DohRequestUncaught(mode, tried) == tried

\* Lines 465-476: the outer catch.
DohRequestCatch(mode, tried) ==
  IF tried.thrown THEN Return(DohAttemptError(mode, tried.err)) ELSE tried

\* performDohRequest, given whether its URL could be built and the HTTP
\* exchange that follows when it could.
performDohRequest(endpointValid, name, mode, resp) ==
  LET url == BuildUrl(endpointValid, name, mode)
  IN IF url.thrown THEN Return(DohAttemptError(mode, url.err))
     ELSE DohRequestCatch(mode, DohRequestTry(mode, resp))

\* Whether performDohRequest / performHttpsRequest reaches its fetch() call.
IssuesHttpCall(endpointValid, name, mode) ==
  ~BuildUrl(endpointValid, name, mode).thrown

\* ------------------------------------------------------------ A-record results
\* summarizeDohModeResult: the successful attempt without its mode.
summarizeDohModeResult(successful, attempts) ==
  [status |-> successful.status, ok |-> successful.ok, ips |-> successful.ips,
   latency_ms |-> successful.latency_ms,
   response_format |-> successful.response_format,
   content_type |-> successful.content_type, raw |-> successful.raw,
   error |-> successful.error,
   attempted_formats |-> [i \in DOMAIN attempts |-> attempts[i].mode],
   mode_results |-> attempts]

\* errors.join(" | ")
RECURSIVE JoinErrors(_)
JoinErrors(errors) ==
  IF Len(errors) = 1 THEN errors[1]
  ELSE errors[1] \o MsgJoin \o JoinErrors(Tail(errors))

\* A combineDohFailures that reports only what the servers answered: the
\* errors of the attempts that got a response, and nothing in their place.
DohFailureErrorOfResponses(results) ==
  LET errors == SelectSeq([i \in DOMAIN results |->
                             IF results[i].status # NullNum THEN results[i].error
                             ELSE <<>>],
                          LAMBDA e : e # <<>>)
  IN IF Len(errors) > 0 THEN JoinErrors(errors) ELSE <<>>

\* Lines 708 and 718 of combineDohFailures: the errors of the attempts, joined.
DohFailureError(results) ==
  LET errors == SelectSeq([i \in DOMAIN results |-> results[i].error],
                          LAMBDA e : e # <<>>)
  IN IF Len(errors) > 0 THEN JoinErrors(errors) ELSE MsgDohFailed

\* A combiner that scans for the status and the latency from the first attempt
\* on.
combineDohFailuresForward(results) ==
  IF Len(results) = 0
  THEN [status |-> NullNum, ok |-> FALSE, ips |-> <<>>, latency_ms |-> NullNum,
        response_format |-> "unknown", content_type |-> NullCt,
        raw |-> RawUndefined, error |-> MsgDohFailed,
        attempted_formats |-> <<>>, mode_results |-> <<>>]
  ELSE
    LET last == results[Len(results)]
        HasStatus(item) == item.status # NullNum
        HasLatency(item) == item.latency_ms # NullNum
        HasFormat(item) == item.response_format # "unknown"
        HasType(item) == item.content_type # NullCt
        si == FirstIndex(results, HasStatus)
        li == FirstIndex(results, HasLatency)
        fi == FirstIndex(results, HasFormat)
        ti == FirstIndex(results, HasType)
        status == IF si # 0 THEN results[si].status ELSE NullNum
        latency == IF li # 0 THEN results[li].latency_ms ELSE NullNum
        responseFormat == IF last.response_format = "unknown"
                          THEN (IF fi # 0 THEN results[fi].response_format
                                ELSE "unknown")
                          ELSE last.response_format
        contentType == IF last.content_type = NullCt
                       THEN (IF ti # 0 THEN results[ti].content_type ELSE NullCt)
                       ELSE last.content_type
    IN [status |-> status, ok |-> FALSE,
        ips |-> Dedup(Flatten([i \in DOMAIN results |-> results[i].ips])),
        latency_ms |-> latency, response_format |-> responseFormat,
        content_type |-> contentType, raw |-> last.raw,
        error |-> DohFailureError(results),
        attempted_formats |-> [i \in DOMAIN results |-> results[i].mode],
        mode_results |-> results]

\* combineDohFailures
combineDohFailures(results) ==
  IF Len(results) = 0
  THEN [status |-> NullNum, ok |-> FALSE, ips |-> <<>>, latency_ms |-> NullNum,
        response_format |-> "unknown", content_type |-> NullCt,
        raw |-> RawUndefined, error |-> MsgDohFailed,
        attempted_formats |-> <<>>, mode_results |-> <<>>]
  ELSE
    LET last == results[Len(results)]
        HasStatus(item) == item.status # NullNum
        HasLatency(item) == item.latency_ms # NullNum
        HasFormat(item) == item.response_format # "unknown"
        HasType(item) == item.content_type # NullCt
        si == LastIndex(results, HasStatus)
        li == LastIndex(results, HasLatency)
        fi == FirstIndex(results, HasFormat)
        ti == FirstIndex(results, HasType)
        status == IF last.status = NullNum /\ si # 0 THEN results[si].status
                  ELSE last.status
        latency == IF last.latency_ms = NullNum /\ li # 0
                   THEN results[li].latency_ms ELSE last.latency_ms
        responseFormat == IF last.response_format = "unknown"
                          THEN (IF fi # 0 THEN results[fi].response_format
                                ELSE "unknown")
                          ELSE last.response_format
        contentType == IF last.content_type = NullCt
                       THEN (IF ti # 0 THEN results[ti].content_type ELSE NullCt)
                       ELSE last.content_type
    IN [status |-> status, ok |-> FALSE,
        ips |-> Dedup(Flatten([i \in DOMAIN results |-> results[i].ips])),
        latency_ms |-> latency, response_format |-> responseFormat,
        content_type |-> contentType, raw |-> last.raw,
        error |-> DohFailureError(results),
        attempted_formats |-> [i \in DOMAIN results |-> results[i].mode],
        mode_results |-> results]

\* A summary that reports the last successful attempt.
DohSummaryOfLastSuccess(modeResults) ==
  LET IsOk(item) == item.ok
      successful == LastIndex(modeResults, IsOk)
      summary == IF successful # 0
                 THEN summarizeDohModeResult(modeResults[successful], modeResults)
                 ELSE combineDohFailures(modeResults)
  IN [summary EXCEPT
        !.attempted_formats = [i \in DOMAIN modeResults |-> modeResults[i].mode],
        !.mode_results = modeResults]

\* Lines 343-354 of fetchDohAnswer: the summary of the attempts made.
DohSummary(modeResults) ==
  LET IsOk(item) == item.ok
      successful == FirstIndex(modeResults, IsOk)
      summary == IF successful # 0
                 THEN summarizeDohModeResult(modeResults[successful], modeResults)
                 ELSE combineDohFailures(modeResults)
  IN [summary EXCEPT
        !.attempted_formats = [i \in DOMAIN modeResults |-> modeResults[i].mode],
        !.mode_results = modeResults]

\* The object runDohCheck puts in place of a rejected query (lines 161-170).
DohRejected(reason) ==
  [status |-> NullNum, ok |-> FALSE, ips |-> <<>>, latency_ms |-> NullNum,
   response_format |-> "unknown", content_type |-> NullCt, raw |-> RawUndefined,
   error |-> normalizeErrorMessage(reason),
   attempted_formats |-> <<>>, mode_results |-> <<>>]

\* ------------------------------------------------------------ strings
\* A string the code looks into is a sequence of one-character tokens.
StrEchEq ==
  <<"e", "c", "h", "=">>
StrEch ==
  <<"e", "c", "h">>
StrConfigBase64 ==
  <<"c", "o", "n", "f", "i", "g", "(", "b", "a", "s", "e", "6", "4", ")">>
StrJsonDataPrefix ==
  <<"1", " ", ".", " ", "a", "l", "p", "n", "=", "h", "2", " ">>
StrDescPrefix ==
  <<"p", "r", "i", "o", "r", "i", "t", "y", "=", "1", " ", "t", "a", "r",
   "g", "e", "t", "=", ".", " ", "p", "a", "r", "a", "m", "s", "=", "[",
   "k", "e", "y", "5", "(", "3", "B", ")", "]">>
StrDescFallback ==
  <<"p", "r", "i", "o", "r", "i", "t", "y", "=", "1", " ", "t", "a", "r",
   "g", "e", "t", "=", ".", " ", "p", "a", "r", "a", "m", "s", "=", "[",
   "k", "e", "y", "1", "(", "2", "B", ")", "]">>
StrDescEch ==
  <<" ", "e", "c", "h", "c", "o", "n", "f", "i", "g", "(", "b", "a", "s",
   "e", "6", "4", ")", "=">>


\* ------------------------------------------------------------ ECH config strings
Quote == "\""
\* The characters the class [^\\s] of parseEchFromRecordString leaves out: the
\* regular expression literal holds \\ and s, so the class is "neither a
\* backslash nor the letter s" (either case, under the i flag).
BareTokenStops == {"\\", "s"}

\* The index of the first character of s at or after k that is in `stops`,
\* Len(s) + 1 if there is none.
RECURSIVE ScanTo(_, _, _)
ScanTo(s, k, stops) ==
  IF k > Len(s) THEN Len(s) + 1
  ELSE IF ToLower(s[k]) \in stops THEN k
  ELSE ScanTo(s, k + 1, stops)

\* The alternative "[^"]+" at index k: the index of the closing quote, 0 if
\* the alternative does not match.
QuotedTokenEnd(s, k) ==
  IF k <= Len(s) /\ s[k] = Quote
  THEN LET q == ScanTo(s, k + 1, {Quote})
       IN IF q <= Len(s) /\ q > k + 1 THEN q ELSE 0
  ELSE 0

\* The alternative [^\\s]+ at index k: the index of the last character of the
\* greedy run, 0 if the run is empty.
BareTokenEnd(s, k) ==
  LET stop == ScanTo(s, k, BareTokenStops)
  IN IF k <= Len(s) /\ stop > k THEN stop - 1 ELSE 0

\* The group ("[^"]+"|[^\\s]+) at index k, given where each alternative
\* ends (0: no match): the quoted alternative is tried first.
EchToken(s, k, quotedEnd, bareEnd) ==
  IF quotedEnd # 0 THEN SubSeq(s, k, quotedEnd)
  ELSE IF bareEnd # 0 THEN SubSeq(s, k, bareEnd)
  ELSE <<>>

\* =("[^"]+"|[^\\s]+) at index eq.
EchAssignment(s, eq) ==
  IF eq > Len(s) \/ s[eq] # "=" THEN <<>>
  ELSE EchToken(s, eq + 1, QuotedTokenEnd(s, eq + 1), BareTokenEnd(s, eq + 1))

\* The regular expression ech(?:config\(base64\))?=("[^"]+"|[^\\s]+) tried at
\* index i: the captured group, <<>> if there is no match at i.  When
\* config(base64) follows ech, no "=" does, so the optional group is taken.
EchRegexAt(s, i) ==
  IF ~MatchAtIgnoreCase(s, i, StrEch) THEN <<>>
  ELSE IF MatchAtIgnoreCase(s, i + Len(StrEch), StrConfigBase64)
  THEN EchAssignment(s, i + Len(StrEch) + Len(StrConfigBase64))
  ELSE EchAssignment(s, i + Len(StrEch))

\* The captured group of the first index in `starts` (ascending) where the
\* regular expression matches, <<>> if there is none.
RECURSIVE EchRegexFirst(_, _)
EchRegexFirst(s, starts) ==
  IF starts = <<>> THEN <<>>
  ELSE IF EchRegexAt(s, Head(starts)) # <<>> THEN EchRegexAt(s, Head(starts))
  ELSE EchRegexFirst(s, Tail(starts))

\* Lines 778-783 of parseEchFromRecordString: match[1], its quotes taken off.
EchValue(match) ==
  IF match = <<>> THEN NullStr
  ELSE IF match[1] = Quote /\ match[Len(match)] = Quote
  THEN (IF Len(match) <= 2 THEN NullStr ELSE SubSeq(match, 2, Len(match) - 1))
  ELSE match

\* parseEchFromRecordString
parseEchFromRecordString(record) ==
  EchValue(EchRegexFirst(record, [i \in 1..Len(record) |-> i]))

\* extractEchConfigString, on a result that is present.
extractEchConfigString(result) ==
  IF ~result.found \/ result.record = NoRecord \/ result.record = <<>>
  THEN IF result.raw.kind = "string"
       THEN parseEchFromRecordString(result.raw.text)
       ELSE NullStr
  ELSE parseEchFromRecordString(result.record)

\* The notes of computeEchMatch, by their kind.
NoteOf(target, reference) ==
  IF target = NullStr /\ reference = NullStr THEN "both absent"
  ELSE IF target = NullStr THEN "target absent"
  ELSE IF reference = NullStr THEN "reference absent"
  ELSE IF target = reference THEN "equal"
  ELSE "unequal"

\* A computeEchMatch that takes a config on one side only for a mismatch,
\* whichever side it is.
computeEchMatchSymmetric(target, reference) ==
  LET Not(x) == x = NullStr \/ x = <<>>
  IN IF Not(target) /\ Not(reference) THEN "null"
     ELSE IF Not(target) \/ Not(reference) THEN "false"
     ELSE IF target = reference THEN "true"
     ELSE "false"

\* computeEchMatch: "true", "false" or "null"; !x holds of null and of "".
computeEchMatch(target, reference) ==
  LET Not(x) == x = NullStr \/ x = <<>>
  IN IF Not(target) /\ Not(reference) THEN "null"
     ELSE IF Not(target) THEN "false"
     ELSE IF Not(reference) THEN "null"
     ELSE IF target = reference THEN "true"
     ELSE "false"

\* A verdict that goes by the one comparison that could be made.
ConsistentByEither(matchesCloudflare, matchesGoogle) ==
  IF matchesCloudflare # "null" /\ matchesGoogle # "null"
  THEN (IF matchesCloudflare = "true" /\ matchesGoogle = "true" THEN "true"
        ELSE "false")
  ELSE IF matchesCloudflare # "null" THEN matchesCloudflare
  ELSE matchesGoogle

\* Lines 273-278 of runDohEchComparison.
Consistent(matchesCloudflare, matchesGoogle) ==
  IF matchesCloudflare # "null" /\ matchesGoogle # "null"
  THEN (IF matchesCloudflare = "true" /\ matchesGoogle = "true" THEN "true"
        ELSE "false")
  ELSE IF matchesCloudflare # "null" \/ matchesGoogle # "null"
  THEN (IF matchesCloudflare = "false" \/ matchesGoogle = "false" THEN "false"
        ELSE "null")
  ELSE "null"

\* ------------------------------------------------------------ HTTPS attempts
HTTPS_RECORD_TYPE == 65

MsgNoEchRecord == <<"no HTTPS record with an ECH parameter found">>
MsgHttpsFailed == <<"HTTPS record query failed">>
MsgHttpsImpossible == <<"the HTTPS record query could not be completed">>
ErrMessageTooShort == <<"DNS message too short">>

\* extractHttpsRecord on a parsed JSON body whose Answer array is `answers`
\* (each answer [type, data], the type as a number): the data of the first
\* type-65 answer that includes "ech=", NoRecord for null.
extractHttpsRecord(answers) ==
  LET Hit(a) == a.type = HTTPS_RECORD_TYPE /\ Includes(a.data, StrEchEq)
      i == FirstIndex(answers, Hit)
  IN IF i = 0 THEN NoRecord ELSE answers[i].data

\* An attempt error that names no format, like the object put in place of a
\* rejected query.
EchAttemptErrorWithoutFormat(mode, error) ==
  [found |-> FALSE, record |-> NoRecord, status |-> NullNum,
   latency_ms |-> NullNum, attempted_formats |-> <<>>,
   response_format |-> "unknown", content_type |-> NullCt,
   raw |-> RawUndefined, error |-> normalizeErrorMessage(error)]

\* The object of lines 517-526 and 620-629.
EchAttemptError(mode, error) ==
  [found |-> FALSE, record |-> NoRecord, status |-> NullNum,
   latency_ms |-> NullNum, attempted_formats |-> <<mode>>,
   response_format |-> "unknown", content_type |-> NullCt,
   raw |-> RawUndefined, error |-> normalizeErrorMessage(error)]

\* Lines 543-572: the JSON decode path.
EchJsonPath(mode, resp) ==
  IF resp.body.readable /\ resp.body.json.ok
  THEN LET record == extractHttpsRecord(resp.body.json.answers)
           found == record # NoRecord /\ record # <<>> /\ Includes(record, StrEchEq)
       IN [found |-> found, record |-> record, status |-> resp.status,
           latency_ms |-> resp.latency, attempted_formats |-> <<mode>>,
           response_format |-> "json", content_type |-> resp.ctype,
           raw |-> RawJson, error |-> IF found THEN <<>> ELSE MsgNoEchRecord]
  ELSE [found |-> FALSE, record |-> NoRecord, status |-> resp.status,
        latency_ms |-> resp.latency, attempted_formats |-> <<mode>>,
        response_format |-> "json", content_type |-> resp.ctype,
        raw |-> RawNull,
        error |-> MsgJsonParsePrefix \o normalizeErrorMessage(
                    Error(IF resp.body.readable THEN ErrJsonSyntax ELSE ErrBodyRead))]

\* Lines 574-588: the text path; response.text() may throw.
EchTextPath(mode, resp) ==
  IF ~resp.body.readable THEN Throw(Error(ErrBodyRead))
  ELSE LET snippet == Snippet(resp.body.text)
       IN Return([found |-> FALSE, record |-> NoRecord, status |-> resp.status,
                  latency_ms |-> resp.latency, attempted_formats |-> <<mode>>,
                  response_format |-> "text", content_type |-> resp.ctype,
                  raw |-> RawText(snippet),
                  error |-> IF snippet # <<>> THEN MsgTextPrefix \o snippet
                            ELSE MsgTextEmpty])

\* Lines 590-618: the wire decode path; resp.body.wire is what
\* findHttpsRecordInDnsMessage returns on the body, [found, record, error].
EchWirePath(mode, resp) ==
  IF ~resp.body.readable THEN Throw(Error(ErrBodyRead))
  ELSE LET r == resp.body.wire
       IN Return([found |-> r.found, record |-> r.record, status |-> resp.status,
                  latency_ms |-> resp.latency, attempted_formats |-> <<mode>>,
                  response_format |-> "wire", content_type |-> resp.ctype,
                  raw |-> RawDnsMessage,
                  error |-> IF r.found THEN <<>>
                            ELSE IF r.error # <<>> THEN r.error
                            ELSE MsgNoEchRecord])

\* Lines 535-618: the body of the outer try.
EchRequestTry(mode, resp) ==
  IF resp.fetch = "timeout" THEN Throw(Error(ErrTimeout))
  ELSE IF resp.fetch = "network" THEN Throw(Error(ErrNetwork))
  ELSE IF isJsonContentType(resp.ctype) THEN Return(EchJsonPath(mode, resp))
  ELSE IF isTextContentType(resp.ctype) THEN EchTextPath(mode, resp)
  ELSE EchWirePath(mode, resp)

\* Lines 619-630: the outer catch.
EchRequestCatch(mode, tried) ==
  IF tried.thrown THEN Return(EchAttemptError(mode, tried.err)) ELSE tried

\* performHttpsRequest
performHttpsRequest(endpointValid, domain, mode, resp) ==
  LET url == BuildUrl(endpointValid, domain, mode)
  IN IF url.thrown THEN Return(EchAttemptError(mode, url.err))
     ELSE EchRequestCatch(mode, EchRequestTry(mode, resp))

\* A combiner that takes the first known response format and content type,
\* whatever the last attempt has.
combineEchFailuresFirstKnown(results) ==
  LET last == results[Len(results)]
      HasStatus(item) == item.status # NullNum
      HasLatency(item) == item.latency_ms # NullNum
      HasFormat(item) == item.response_format # "unknown"
      HasType(item) == item.content_type # NullCt
      HasRecord(item) == item.record # NoRecord /\ item.record # <<>>
      si == LastIndex(results, HasStatus)
      li == LastIndex(results, HasLatency)
      fi == FirstIndex(results, HasFormat)
      ti == FirstIndex(results, HasType)
      ri == FirstIndex(results, HasRecord)
      errors == SelectSeq([i \in DOMAIN results |-> results[i].error],
                          LAMBDA e : e # <<>>)
  IN [found |-> \E i \in DOMAIN results : results[i].found,
      record |-> IF ri # 0 THEN results[ri].record ELSE NoRecord,
      status |-> IF last.status = NullNum /\ si # 0 THEN results[si].status
                 ELSE last.status,
      latency_ms |-> IF last.latency_ms = NullNum /\ li # 0
                     THEN results[li].latency_ms ELSE last.latency_ms,
      attempted_formats |->
        Dedup(Flatten([i \in DOMAIN results |-> results[i].attempted_formats])),
      response_format |-> IF fi # 0 THEN results[fi].response_format
                          ELSE "unknown",
      content_type |-> IF ti # 0 THEN results[ti].content_type ELSE NullCt,
      raw |-> last.raw,
      error |-> IF Len(errors) > 0 THEN JoinErrors(errors) ELSE MsgHttpsFailed]

\* combineEchFailures, on a non-empty list.
combineEchFailures(results) ==
  LET last == results[Len(results)]
      HasStatus(item) == item.status # NullNum
      HasLatency(item) == item.latency_ms # NullNum
      HasFormat(item) == item.response_format # "unknown"
      HasType(item) == item.content_type # NullCt
      HasRecord(item) == item.record # NoRecord /\ item.record # <<>>
      si == LastIndex(results, HasStatus)
      li == LastIndex(results, HasLatency)
      fi == FirstIndex(results, HasFormat)
      ti == FirstIndex(results, HasType)
      ri == FirstIndex(results, HasRecord)
      errors == SelectSeq([i \in DOMAIN results |-> results[i].error],
                          LAMBDA e : e # <<>>)
  IN [found |-> \E i \in DOMAIN results : results[i].found,
      record |-> IF ri # 0 THEN results[ri].record ELSE NoRecord,
      status |-> IF last.status = NullNum /\ si # 0 THEN results[si].status
                 ELSE last.status,
      latency_ms |-> IF last.latency_ms = NullNum /\ li # 0
                     THEN results[li].latency_ms ELSE last.latency_ms,
      attempted_formats |->
        Dedup(Flatten([i \in DOMAIN results |-> results[i].attempted_formats])),
      response_format |-> IF last.response_format = "unknown" /\ fi # 0
                          THEN results[fi].response_format
                          ELSE last.response_format,
      content_type |-> IF last.content_type = NullCt
                       THEN (IF ti # 0 THEN results[ti].content_type ELSE NullCt)
                       ELSE last.content_type,
      raw |-> last.raw,
      error |-> IF Len(errors) > 0 THEN JoinErrors(errors) ELSE MsgHttpsFailed]

\* Lines 494-507 of fetchHttpsRecord: no attempt found ECH.
EchNotFound(attempts) ==
  IF Len(attempts) > 0 THEN combineEchFailures(attempts)
  ELSE [found |-> FALSE, record |-> NoRecord, status |-> NullNum,
        latency_ms |-> NullNum, attempted_formats |-> <<>>,
        response_format |-> "unknown", content_type |-> NullCt,
        raw |-> RawUndefined, error |-> MsgHttpsImpossible]

\* The object put in place of a rejected query (lines 244-253 and 309-318).
EchRejected(reason) ==
  [found |-> FALSE, record |-> NoRecord, status |-> NullNum,
   latency_ms |-> NullNum, attempted_formats |-> <<>>,
   response_format |-> "unknown", content_type |-> NullCt,
   raw |-> RawUndefined, error |-> normalizeErrorMessage(reason)]

\* ------------------------------------------------------------ one provider query
\* A query (one call of fetchDohAnswer or fetchHttpsRecord) is
\*   pc       "idle", "json" or "wire" (the attempt it makes next), "settled"
\*   attempts modeResults / attempts
\*   calls    the modes of the fetch() calls it issued, in order
\*   tried    the modes of the attempts it made, in order
\*   fetches  how the fetch() of each attempt ended, in order: "none" (no
\*            call), "timeout", "network" or "ok" (a response arrived)
\*   outcome  "pending", "fulfilled" (value = <<result>>) or "rejected"
\*            (reason = <<error>>)
IdleQuery ==
  [pc |-> "idle", attempts |-> <<>>, calls |-> <<>>, tried |-> <<>>,
   fetches |-> <<>>, outcome |-> "pending", value |-> <<>>, reason |-> <<>>]

LaunchedQuery == [IdleQuery EXCEPT !.pc = "json"]

Fulfil(q, result) ==
  [q EXCEPT !.pc = "settled", !.outcome = "fulfilled", !.value = <<result>>]

Reject(q, reason) ==
  [q EXCEPT !.pc = "settled", !.outcome = "rejected", !.reason = <<reason>>]

\* No HTTP exchange: the attempt ends before fetch().
NoResponse ==
  [fetch |-> "none", status |-> NullNum, latency |-> NullNum, ctype |-> NullCt]

\* The HTTP exchanges an attempt may meet: those of `responses` if it reaches
\* fetch(), none otherwise.
Exchanges(endpointValid, name, mode, responses) ==
  IF IssuesHttpCall(endpointValid, name, mode) THEN responses ELSE {NoResponse}

Logged(q, endpointValid, name, resp) ==
  [q EXCEPT !.tried = Append(@, q.pc),
            !.calls = IF IssuesHttpCall(endpointValid, name, q.pc)
                      THEN Append(@, q.pc) ELSE @,
            !.fetches = Append(@, resp.fetch)]

\* A fetchDohAnswer that stops at the first successful attempt, as
\* fetchHttpsRecord does.
fetchDohAnswerUntilSuccess(q, endpointValid, name, resp) ==
  LET result == performDohRequest(endpointValid, name, q.pc, resp)
      logged == Logged(q, endpointValid, name, resp)
      modeResults == Append(q.attempts, result.val)
      pushed == [logged EXCEPT !.attempts = modeResults]
  IN IF result.thrown THEN Reject(logged, result.err)
     ELSE IF q.pc = "json" /\ ~result.val.ok THEN [pushed EXCEPT !.pc = "wire"]
     ELSE Fulfil(pushed, DohSummary(modeResults))

\* fetchDohAnswer: one turn of its loop (lines 338-341), followed after the
\* wire attempt by the summary (lines 343-354).
fetchDohAnswer(q, endpointValid, name, resp) ==
  LET result == performDohRequest(endpointValid, name, q.pc, resp)
      logged == Logged(q, endpointValid, name, resp)
  IN IF result.thrown THEN Reject(logged, result.err)
     ELSE LET modeResults == Append(q.attempts, result.val)
              pushed == [logged EXCEPT !.attempts = modeResults]
          IN IF q.pc = "json" THEN [pushed EXCEPT !.pc = "wire"]
             ELSE Fulfil(pushed, DohSummary(modeResults))

\* A fetchHttpsRecord that makes both attempts, as fetchDohAnswer does, and
\* then returns the first that found ECH.
fetchHttpsRecordBothModes(q, endpointValid, domain, resp) ==
  LET attempt == performHttpsRequest(endpointValid, domain, q.pc, resp)
      logged == Logged(q, endpointValid, domain, resp)
      attempts == Append(q.attempts, attempt.val)
      pushed == [logged EXCEPT !.attempts = attempts]
      IsFound(item) == item.found
      found == FirstIndex(attempts, IsFound)
  IN IF attempt.thrown THEN Reject(logged, attempt.err)
     ELSE IF q.pc = "json" THEN [pushed EXCEPT !.pc = "wire"]
     ELSE IF found # 0 THEN Fulfil(pushed, attempts[found])
     ELSE Fulfil(pushed, EchNotFound(attempts))

\* fetchHttpsRecord: the JSON attempt (lines 482-486) or the wire attempt and
\* what follows it (lines 488-507).
fetchHttpsRecord(q, endpointValid, domain, resp) ==
  LET attempt == performHttpsRequest(endpointValid, domain, q.pc, resp)
      logged == Logged(q, endpointValid, domain, resp)
  IN IF attempt.thrown THEN Reject(logged, attempt.err)
     ELSE IF attempt.val.found THEN Fulfil(logged, attempt.val)
     ELSE LET attempts == Append(q.attempts, attempt.val)
              pushed == [logged EXCEPT !.attempts = attempts]
          IN IF q.pc = "json" THEN [pushed EXCEPT !.pc = "wire"]
             ELSE Fulfil(pushed, EchNotFound(attempts))

\* ------------------------------------------------------------ HTTP exchanges
Statuses == {200, 503}
Latencies == {12, 40}
FetchFailures == {"timeout", "network"}

FailedFetch(f) ==
  [fetch |-> f, status |-> NullNum, latency |-> NullNum, ctype |-> NullCt]

Response(status, latency, ctype, body) ==
  [fetch |-> "ok", status |-> status, latency |-> latency, ctype |-> ctype,
   body |-> body]

EmptyText == [head |-> <<>>, long |-> FALSE]
ShortText == [head |-> <<"<", "h", "1", ">">>, long |-> FALSE]
LongText == [head |-> <<"<", "h", "1", ">">>, long |-> TRUE]

\* Bodies of an A-record exchange: one that cannot be read, a JSON document
\* with an Answer array (no DNS message), a DNS message with an answer section
\* (no JSON document), a DNS message the decoder throws on, and plain texts.
DohUnreadable ==
  [readable |-> FALSE, json |-> [ok |-> FALSE, answers |-> <<>>],
   wire |-> [ok |-> FALSE, answers |-> <<>>], text |-> EmptyText]
DohJsonBody(answers) ==
  [readable |-> TRUE, json |-> [ok |-> TRUE, answers |-> answers],
   wire |-> [ok |-> FALSE, answers |-> <<>>], text |-> ShortText]
DohWireBody(answers) ==
  [readable |-> TRUE, json |-> [ok |-> FALSE, answers |-> <<>>],
   wire |-> [ok |-> TRUE, answers |-> answers], text |-> ShortText]
DohTextBody(text) ==
  [readable |-> TRUE, json |-> [ok |-> FALSE, answers |-> <<>>],
   wire |-> [ok |-> (text = EmptyText), answers |-> <<>>], text |-> text]

DohBodies ==
  {DohUnreadable}
    \cup {DohJsonBody(a) : a \in AnswerLists}
    \cup {DohWireBody(a) : a \in AnswerLists}
    \cup {DohTextBody(t) : t \in {EmptyText, ShortText, LongText}}

\* Every exchange an A-record attempt may meet.
DohResponses ==
  {FailedFetch(f) : f \in FetchFailures}
    \cup {Response(st, l, ct, b) :
            st \in Statuses, l \in Latencies, ct \in ContentTypes, b \in DohBodies}

Digits == <<"1", "2", "3", "4", "5", "6", "7", "8", "9">>
\* The base64 text of the i-th ECH configuration.
EchConfigText(i) == <<"A", "E", "X", Digits[i]>>
EchConfigs == {EchConfigText(i) : i \in 1..NumEchConfigs}

\* The data of an HTTPS answer of a JSON body: with a bare ech parameter, with
\* a quoted one, without one.
JsonDataEch(config) == StrJsonDataPrefix \o StrEchEq \o config
JsonDataQuotedEch(config) ==
  StrJsonDataPrefix \o StrEchEq \o <<Quote>> \o config \o <<Quote>>
JsonDataNoEch == StrJsonDataPrefix

HttpsAnswers ==
  {[type |-> HTTPS_RECORD_TYPE, data |-> JsonDataEch(c)] : c \in EchConfigs}
    \cup {[type |-> HTTPS_RECORD_TYPE, data |-> JsonDataQuotedEch(c)] : c \in EchConfigs}
    \cup {[type |-> HTTPS_RECORD_TYPE, data |-> JsonDataNoEch],
          [type |-> 1, data |-> JsonDataEch(EchConfigText(1))]}
HttpsAnswerLists == UNION {[1..n -> HttpsAnswers] : n \in 0..MaxAnswers}

\* What findHttpsRecordInDnsMessage returns: a record with ECH, the fallback
\* record, no record, an error.
WireEch(config) ==
  [found |-> TRUE, record |-> StrDescPrefix \o StrDescEch \o config, error |-> <<>>]
WireFallback == [found |-> FALSE, record |-> StrDescFallback, error |-> <<>>]
WireNoRecord == [found |-> FALSE, record |-> NoRecord, error |-> <<>>]
WireError(e) == [found |-> FALSE, record |-> NoRecord, error |-> e]
WireOutcomes ==
  {WireEch(c) : c \in EchConfigs}
    \cup {WireFallback, WireNoRecord, WireError(ErrMessageTooShort),
          WireError(ErrDnsName)}

EchUnreadable ==
  [readable |-> FALSE, json |-> [ok |-> FALSE, answers |-> <<>>],
   wire |-> WireError(ErrMessageTooShort), text |-> EmptyText]
EchJsonBody(answers) ==
  [readable |-> TRUE, json |-> [ok |-> TRUE, answers |-> answers],
   wire |-> WireError(ErrDnsName), text |-> LongText]
EchWireBody(outcome) ==
  [readable |-> TRUE, json |-> [ok |-> FALSE, answers |-> <<>>],
   wire |-> outcome, text |-> ShortText]
EchTextBody(text) ==
  [readable |-> TRUE, json |-> [ok |-> FALSE, answers |-> <<>>],
   wire |-> WireError(IF text = EmptyText THEN ErrMessageTooShort ELSE ErrDnsName),
   text |-> text]

EchBodies ==
  {EchUnreadable}
    \cup {EchJsonBody(a) : a \in HttpsAnswerLists}
    \cup {EchWireBody(o) : o \in WireOutcomes}
    \cup {EchTextBody(t) : t \in {EmptyText, ShortText, LongText}}
    \cup {EchTextBody([head |-> StrEchEq \o c, long |-> FALSE]) : c \in EchConfigs}

\* Every exchange an HTTPS attempt may meet.
EchResponses ==
  {FailedFetch(f) : f \in FetchFailures}
    \cup {Response(st, l, ct, b) :
            st \in Statuses, l \in Latencies, ct \in ContentTypes, b \in EchBodies}

\* ------------------------------------------------------------ comparison engine
MsgTargetQueryFailed == <<"the target DoH query failed">>
MsgAllMatch == <<"the target agrees with Cloudflare and Google">>
MsgMatchesCloudflare == <<"the target agrees with Cloudflare, not with Google">>
MsgMatchesGoogle == <<"the target agrees with Google, not with Cloudflare">>
MsgNoMatch == <<"the target agrees with neither Cloudflare nor Google">>
MsgEchInconsistent == <<" the ECH configuration of the target differs from the authorities">>
MsgEchConsistent == <<" the ECH configuration agrees with the authorities">>
MsgEchEnabled == <<"an HTTPS record with an ECH parameter was found">>
MsgEchNotEnabled == <<"no ECH parameter was found in the HTTPS records">>

\* A setsAreEqual without its comparison of the sizes.
setsAreEqualWithoutSize(a, b) == \A item \in a : item \in b

\* setsAreEqual
setsAreEqual(a, b) ==
  IF Cardinality(a) # Cardinality(b) THEN FALSE
  ELSE \A item \in a : item \in b

\* What Promise.allSettled and the map over it make of a settled query
\* (lines 155-172, 238-255, 303-320).
SettledDoh(q) ==
  IF q.outcome = "fulfilled" THEN q.value[1] ELSE DohRejected(q.reason[1])

SettledEch(q) ==
  IF q.outcome = "fulfilled" THEN q.value[1] ELSE EchRejected(q.reason[1])

\* Lines 178-179 of runDohCheck.
DohMatches(targetResult, referenceResult) ==
  /\ targetResult.ok
  /\ referenceResult.ok
  /\ setsAreEqual(Range(targetResult.ips), Range(referenceResult.ips))

\* Lines 265-267 of runDohEchComparison: targetEch, cloudflareEch, googleEch.
EchConfigStrings(echResults) ==
  [p \in ProviderKey |-> extractEchConfigString(echResults[p])]

\* Lines 257-288 of runDohEchComparison.
runDohEchComparison(echResults) ==
  LET targetEch == extractEchConfigString(echResults["target"])
      cloudflareEch == extractEchConfigString(echResults["cloudflare"])
      googleEch == extractEchConfigString(echResults["google"])
      matchesCloudflare == computeEchMatch(targetEch, cloudflareEch)
      matchesGoogle == computeEchMatch(targetEch, googleEch)
  IN [target |-> echResults["target"],
      cloudflare |-> echResults["cloudflare"],
      google |-> echResults["google"],
      matches_cloudflare |-> matchesCloudflare,
      matches_google |-> matchesGoogle,
      consistent |-> Consistent(matchesCloudflare, matchesGoogle),
      notes |-> <<NoteOf(targetEch, cloudflareEch), NoteOf(targetEch, googleEch)>>]

\* A verdict whose failure message is the fixed one, whatever the target's error.
DohVerdictFixedMessage(targetResult, matchesCloudflare, matchesGoogle) ==
  IF ~targetResult.ok
  THEN [status |-> "failure", message |-> MsgTargetQueryFailed]
  ELSE IF matchesCloudflare /\ matchesGoogle
  THEN [status |-> "success", message |-> MsgAllMatch]
  ELSE IF matchesCloudflare \/ matchesGoogle
  THEN [status |-> "partial_match",
        message |-> IF matchesCloudflare THEN MsgMatchesCloudflare
                    ELSE MsgMatchesGoogle]
  ELSE [status |-> "failure", message |-> MsgNoMatch]

\* Lines 182-199 of runDohCheck: the status and the message before the ECH note.
DohVerdict(targetResult, matchesCloudflare, matchesGoogle) ==
  IF ~targetResult.ok
  THEN [status |-> "failure",
        message |-> IF targetResult.error # <<>> THEN targetResult.error
                    ELSE MsgTargetQueryFailed]
  ELSE IF matchesCloudflare /\ matchesGoogle
  THEN [status |-> "success", message |-> MsgAllMatch]
  ELSE IF matchesCloudflare \/ matchesGoogle
  THEN [status |-> "partial_match",
        message |-> IF matchesCloudflare THEN MsgMatchesCloudflare
                    ELSE MsgMatchesGoogle]
  ELSE [status |-> "failure", message |-> MsgNoMatch]

\* Lines 201-207 of runDohCheck.
EchNote(echComparison) ==
  IF echComparison.consistent = "false" THEN MsgEchInconsistent
  ELSE IF echComparison.consistent = "true" THEN MsgEchConsistent
  ELSE <<>>

\* Lines 182-218 of runDohCheck.
DohReport(details, comparison, echComparison) ==
  LET verdict == DohVerdict(details["target"], comparison.matches_cloudflare,
                            comparison.matches_google)
  IN [status |-> verdict.status,
      message |-> verdict.message \o EchNote(echComparison),
      details |-> details,
      comparison |-> comparison,
      ech_comparison |-> echComparison]

\* A verdict that takes any record for a finding.
EchReportAnyRecord(providerResults) ==
  LET echEnabled ==
        \E p \in DOMAIN providerResults :
          providerResults[p].found \/ providerResults[p].record # NoRecord
  IN [ech_enabled |-> echEnabled,
      message |-> IF echEnabled THEN MsgEchEnabled ELSE MsgEchNotEnabled,
      providers |-> providerResults]

\* Lines 322-332 of runEchCheck.
EchReport(providerResults) ==
  LET echEnabled == \E p \in DOMAIN providerResults : providerResults[p].found
  IN [ech_enabled |-> echEnabled,
      message |-> IF echEnabled THEN MsgEchEnabled ELSE MsgEchNotEnabled,
      providers |-> providerResults]

\* ------------------------------------------------------------ the checks
\* The exchanges of the checks below: each provider answers a JSON-mode request
\* with a JSON body or not at all, and a wire-mode request with a DNS message
\* or not at all.
JsonContentType == "application/dns-json"
WireContentType == "application/dns-message"

CheckDohResponses(mode) ==
  IF mode = "json"
  THEN {FailedFetch("timeout")}
         \cup {Response(200, 12, JsonContentType, DohJsonBody(a)) :
                 a \in {<<1, 2>>, <<2, 1>>}}
  ELSE {FailedFetch("network"),
        Response(200, 12, WireContentType, DohWireBody(<<1>>)),
        Response(503, 12, WireContentType, DohWireBody(<<2, 1>>))}

\* One provider, Cloudflare's, besides answers a JSON-mode request with a DNS
\* message that holds only an HTTPS record without ech, and a wire-mode request
\* with a text that names an ech parameter.
CheckEchResponses(p, mode) ==
  IF mode = "json"
  THEN {FailedFetch("timeout")}
         \cup {Response(200, 12, JsonContentType,
                        EchJsonBody(<<[type |-> HTTPS_RECORD_TYPE,
                                       data |-> JsonDataEch(EchConfigText(i))]>>)) :
                 i \in {1, 2}}
         \cup (IF p = "cloudflare"
               THEN {Response(200, 12, WireContentType, EchWireBody(WireFallback))}
               ELSE {})
  ELSE {FailedFetch("network")}
         \cup (IF p = "cloudflare"
               THEN {Response(200, 12, "text/plain",
                              EchTextBody([head |-> StrEchEq \o EchConfigText(1),
                                           long |-> FALSE]))}
               ELSE {})

\* testDomain / target of handleRequest: never empty.
CheckDomains == {"ok", "longlabel"}

VARIABLES
  check,       \* the request: [kind, targetValid, domain]
  pc,          \* where runDohCheck / runEchCheck stands
  doh,         \* the fetchDohAnswer query of each provider
  ech,         \* the fetchHttpsRecord query of each provider
  details,     \* runDohCheck: details
  comparison,  \* runDohCheck: matchesCloudflare, matchesGoogle
  echStrings,  \* runDohEchComparison: targetEch, cloudflareEch, googleEch
  report,      \* what the check returns
  frame        \* the wire codec: the call under way, its locals, its result

vars == <<check, pc, doh, ech, details, comparison, echStrings, report, frame>>

\* No call of the wire codec is under way.
NoFrame == [op |-> "none"]

NoCheck == [kind |-> "none", targetValid |-> TRUE, domain |-> "ok"]

\* new URL(endpoint) succeeds on the two reference endpoints, which are constants.
EndpointValid(p) == IF p = "target" THEN check.targetValid ELSE TRUE

AllSettled(queries, providers) == \A p \in providers : queries[p].pc = "settled"

Init ==
  /\ check = NoCheck
  /\ pc = "idle"
  /\ doh = [p \in ProviderKey |-> IdleQuery]
  /\ ech = [p \in ProviderKey |-> IdleQuery]
  /\ details = <<>>
  /\ comparison = <<>>
  /\ echStrings = <<>>
  /\ report = <<>>
  /\ frame = NoFrame

\* A runDohCheck that awaits its queries one after the other: it launches the
\* target's and nothing else.
StartDohCheckOneByOne ==
  /\ pc = "idle"
  /\ \E valid \in BOOLEAN, domain \in CheckDomains :
       check' = [kind |-> "doh", targetValid |-> valid, domain |-> domain]
  /\ doh' = [p \in ProviderKey |->
               IF p = "target" THEN LaunchedQuery ELSE IdleQuery]
  /\ pc' = "awaitDoh"
  /\ UNCHANGED <<ech, details, comparison, echStrings, report, frame>>

\* handleRequest, mode "doh": runDohCheck up to its first await (lines 143-153).
StartDohCheck ==
  /\ pc = "idle"
  /\ \E valid \in BOOLEAN, domain \in CheckDomains :
       check' = [kind |-> "doh", targetValid |-> valid, domain |-> domain]
  /\ doh' = [p \in ProviderKey |-> LaunchedQuery]
  /\ pc' = "awaitDoh"
  /\ UNCHANGED <<ech, details, comparison, echStrings, report, frame>>

\* handleRequest, mode "ech": runEchCheck up to its await (lines 292-301).
StartEchCheck ==
  /\ pc = "idle"
  /\ \E domain \in CheckDomains :
       check' = [kind |-> "ech", targetValid |-> TRUE, domain |-> domain]
  /\ ech' = [p \in ProviderKey |->
               IF p \in References THEN LaunchedQuery ELSE IdleQuery]
  /\ pc' = "awaitEch"
  /\ UNCHANGED <<doh, details, comparison, echStrings, report, frame>>

\* One attempt of provider p's fetchDohAnswer.
DohAttempt(p) ==
  /\ pc = "awaitDoh"
  /\ doh[p].pc \in {"json", "wire"}
  /\ \E resp \in Exchanges(EndpointValid(p), check.domain, doh[p].pc,
                           CheckDohResponses(doh[p].pc)) :
       doh' = [doh EXCEPT
                 ![p] = fetchDohAnswer(doh[p], EndpointValid(p), check.domain, resp)]
  /\ UNCHANGED <<check, pc, ech, details, comparison, echStrings, report, frame>>

\* runDohCheck from the end of its first await to its second (lines 155-180,
\* 232-237): the details, the two matches, the launch of the HTTPS queries.
DohSettled ==
  /\ pc = "awaitDoh"
  /\ AllSettled(doh, ProviderKey)
  /\ LET settled == [p \in ProviderKey |-> SettledDoh(doh[p])]
     IN /\ details' = settled
        /\ comparison' =
             [matches_cloudflare |-> DohMatches(settled["target"], settled["cloudflare"]),
              matches_google |-> DohMatches(settled["target"], settled["google"])]
  /\ ech' = [p \in ProviderKey |-> LaunchedQuery]
  /\ pc' = "awaitEch"
  /\ UNCHANGED <<check, doh, echStrings, report, frame>>

\* One attempt of provider p's fetchHttpsRecord.
EchAttempt(p) ==
  /\ pc = "awaitEch"
  /\ ech[p].pc \in {"json", "wire"}
  /\ \E resp \in Exchanges(EndpointValid(p), check.domain, ech[p].pc,
                           CheckEchResponses(p, ech[p].pc)) :
       ech' = [ech EXCEPT
                 ![p] = fetchHttpsRecord(ech[p], EndpointValid(p), check.domain, resp)]
  /\ UNCHANGED <<check, pc, doh, details, comparison, echStrings, report, frame>>

\* runDohCheck from the end of runDohEchComparison's await to its return
\* (lines 238-288, 182-218).
EchComparisonSettled ==
  /\ pc = "awaitEch"
  /\ check.kind = "doh"
  /\ AllSettled(ech, ProviderKey)
  /\ LET echResults == [p \in ProviderKey |-> SettledEch(ech[p])]
     IN /\ echStrings' = EchConfigStrings(echResults)
        /\ report' = DohReport(details, comparison, runDohEchComparison(echResults))
  /\ pc' = "done"
  /\ UNCHANGED <<check, doh, ech, details, comparison, frame>>

\* runEchCheck from the end of its await to its return (lines 303-332).
EchCheckSettled ==
  /\ pc = "awaitEch"
  /\ check.kind = "ech"
  /\ AllSettled(ech, References)
  /\ report' = EchReport([p \in References |-> SettledEch(ech[p])])
  /\ pc' = "done"
  /\ UNCHANGED <<check, doh, ech, details, comparison, echStrings, frame>>

Next ==
  \/ StartDohCheck
  \/ StartEchCheck
  \/ \E p \in ProviderKey : DohAttempt(p)
  \/ DohSettled
  \/ \E p \in ProviderKey : EchAttempt(p)
  \/ EchComparisonSettled
  \/ EchCheckSettled

Spec == Init /\ [][Next]_vars

\* ------------------------------------------------------------ one query alone
\* One call of fetchDohAnswer, then of fetchHttpsRecord, on the target
\* endpoint, against every exchange of DohResponses / EchResponses.
FetchDomains == DomainClasses

\* fetchDohAnswer(endpoint, name, "A", timeout) is called.
CallFetchDohAnswer ==
  /\ pc = "idle"
  /\ \E valid \in BOOLEAN, name \in FetchDomains :
       check' = [kind |-> "fetchDoh", targetValid |-> valid, domain |-> name]
  /\ doh' = [doh EXCEPT !["target"] = LaunchedQuery]
  /\ pc' = "fetching"
  /\ UNCHANGED <<ech, details, comparison, echStrings, report, frame>>

\* fetchHttpsRecord(endpoint, domain, timeout) is called.
CallFetchHttpsRecord ==
  /\ pc = "idle"
  /\ \E valid \in BOOLEAN, domain \in FetchDomains :
       check' = [kind |-> "fetchHttps", targetValid |-> valid, domain |-> domain]
  /\ ech' = [ech EXCEPT !["target"] = LaunchedQuery]
  /\ pc' = "fetching"
  /\ UNCHANGED <<doh, details, comparison, echStrings, report, frame>>

\* One attempt of fetchDohAnswer.
FetchDohAttempt ==
  /\ pc = "fetching"
  /\ doh["target"].pc \in {"json", "wire"}
  /\ \E resp \in Exchanges(check.targetValid, check.domain, doh["target"].pc,
                           DohResponses) :
       doh' = [doh EXCEPT
                 !["target"] = fetchDohAnswer(doh["target"], check.targetValid,
                                              check.domain, resp)]
  /\ UNCHANGED <<check, pc, ech, details, comparison, echStrings, report, frame>>

\* One attempt of fetchHttpsRecord.
FetchHttpsAttempt ==
  /\ pc = "fetching"
  /\ ech["target"].pc \in {"json", "wire"}
  /\ \E resp \in Exchanges(check.targetValid, check.domain, ech["target"].pc,
                           EchResponses) :
       ech' = [ech EXCEPT
                 !["target"] = fetchHttpsRecord(ech["target"], check.targetValid,
                                                check.domain, resp)]
  /\ UNCHANGED <<check, pc, doh, details, comparison, echStrings, report, frame>>

NextFetch ==
  \/ CallFetchDohAnswer
  \/ CallFetchHttpsRecord
  \/ FetchDohAttempt
  \/ FetchHttpsAttempt

SpecFetch == Init /\ [][NextFetch]_vars

\* ------------------------------------------------------------ bytes and characters
\* A Uint8Array is a sequence of bytes; the code's message[i] is ByteAt.
\* Reading outside the array yields undefined.
Undefined == -1

ByteAt(message, i) ==
  IF i \in 0..(Len(message) - 1) THEN message[i + 1] ELSE Undefined

\* message.subarray(start, end), for 0 <= start <= end: the end is clamped to
\* the length of the message.
Subarray(message, start, end) ==
  SubSeq(message, start + 1, IF end > Len(message) THEN Len(message) ELSE end)

\* DataView.getUint16(i), big-endian, for i + 2 <= message.length
Uint16At(message, i) == ByteAt(message, i) * 256 + ByteAt(message, i + 1)

\* The characters U+0000..U+00FF, by code: a printable ASCII character stands
\* for itself, any other for its code.
Latin1 ==
  <<"0x00", "0x01", "0x02", "0x03", "0x04", "0x05", "0x06", "0x07", "0x08",
    "0x09", "0x0A", "0x0B", "0x0C", "0x0D", "0x0E", "0x0F", "0x10", "0x11",
    "0x12", "0x13", "0x14", "0x15", "0x16", "0x17", "0x18", "0x19", "0x1A",
    "0x1B", "0x1C", "0x1D", "0x1E", "0x1F", " ", "!", "\"", "#", "$", "%",
    "&", "'", "(", ")", "*", "+", ",", "-", ".", "/", "0", "1", "2", "3",
    "4", "5", "6", "7", "8", "9", ":", ";", "<", "=", ">", "?", "@", "A",
    "B", "C", "D", "E", "F", "G", "H", "I", "J", "K", "L", "M", "N", "O",
    "P", "Q", "R", "S", "T", "U", "V", "W", "X", "Y", "Z", "[", "\\", "]",
    "^", "_", "0x60", "a", "b", "c", "d", "e", "f", "g", "h", "i", "j", "k",
    "l", "m", "n", "o", "p", "q", "r", "s", "t", "u", "v", "w", "x", "y",
    "z", "{", "|", "}", "~", "0x7F", "0x80", "0x81", "0x82", "0x83", "0x84",
    "0x85", "0x86", "0x87", "0x88", "0x89", "0x8A", "0x8B", "0x8C", "0x8D",
    "0x8E", "0x8F", "0x90", "0x91", "0x92", "0x93", "0x94", "0x95", "0x96",
    "0x97", "0x98", "0x99", "0x9A", "0x9B", "0x9C", "0x9D", "0x9E", "0x9F",
    "0xA0", "0xA1", "0xA2", "0xA3", "0xA4", "0xA5", "0xA6", "0xA7", "0xA8",
    "0xA9", "0xAA", "0xAB", "0xAC", "0xAD", "0xAE", "0xAF", "0xB0", "0xB1",
    "0xB2", "0xB3", "0xB4", "0xB5", "0xB6", "0xB7", "0xB8", "0xB9", "0xBA",
    "0xBB", "0xBC", "0xBD", "0xBE", "0xBF", "0xC0", "0xC1", "0xC2", "0xC3",
    "0xC4", "0xC5", "0xC6", "0xC7", "0xC8", "0xC9", "0xCA", "0xCB", "0xCC",
    "0xCD", "0xCE", "0xCF", "0xD0", "0xD1", "0xD2", "0xD3", "0xD4", "0xD5",
    "0xD6", "0xD7", "0xD8", "0xD9", "0xDA", "0xDB", "0xDC", "0xDD", "0xDE",
    "0xDF", "0xE0", "0xE1", "0xE2", "0xE3", "0xE4", "0xE5", "0xE6", "0xE7",
    "0xE8", "0xE9", "0xEA", "0xEB", "0xEC", "0xED", "0xEE", "0xEF", "0xF0",
    "0xF1", "0xF2", "0xF3", "0xF4", "0xF5", "0xF6", "0xF7", "0xF8", "0xF9",
    "0xFA", "0xFB", "0xFC", "0xFD", "0xFE", "0xFF">>

\* The characters outside Latin-1 the model knows, with their code units.
WideChars == [c \in {"U+0101"} |-> 257]

\* String.fromCharCode(code), for a byte
fromCharCode(code) == Latin1[code + 1]

CodeOfLatin1 ==
  [c \in Range(Latin1) |-> (CHOOSE i \in DOMAIN Latin1 : Latin1[i] = c) - 1]

\* s.charCodeAt(i), by the character at i
charCodeAt(c) == IF c \in DOMAIN WideChars THEN WideChars[c] ELSE CodeOfLatin1[c]

\* labels.join(sep) / params.join(sep)
RECURSIVE Join(_, _)
Join(parts, sep) ==
  IF parts = <<>> THEN <<>>
  ELSE IF Len(parts) = 1 THEN parts[1]
  ELSE parts[1] \o sep \o Join(Tail(parts), sep)

\* ------------------------------------------------------------ DNS names
ErrNameSafety == <<"DNS name decoding exceeded the safety limit">>
ErrPointerTruncated == <<"DNS name pointer truncated">>
ErrPointerOutOfRange == <<"DNS name pointer out of range">>
ErrLabelLength == <<"illegal DNS label length">>
ErrLabelOutOfRange == <<"DNS label out of message range">>
NameErrors ==
  {ErrNameSafety, ErrDnsName, ErrPointerTruncated, ErrPointerOutOfRange,
   ErrLabelLength, ErrLabelOutOfRange}

\* readLabel
readLabel(message, start, length) ==
  [i \in 1..length |-> fromCharCode(ByteAt(message, start + i - 1))]

\* The locals of readDnsName at the head of its loop (lines 1188-1192), with
\* what the model records of the run:
\*   pc     "loop", "returned" or "thrown" (err = the message thrown)
\*   path   currentOffset at the head of each turn begun
\*   reads  the indices message[...] was evaluated at
NameFrame(message, offset) ==
  [op |-> "readDnsName", message |-> message, offset |-> offset,
   labels |-> <<>>, length |-> 0, jumped |-> FALSE, currentOffset |-> offset,
   safety |-> 0, pc |-> "loop", err |-> <<>>, path |-> <<>>, reads |-> {}]

NameThrow(f, e) == [f EXCEPT !.pc = "thrown", !.err = e]

\* Lines 1206-1221: a compression pointer.
NamePointer(f, len, nextByte) ==
  IF nextByte = Undefined THEN NameThrow(f, ErrPointerTruncated)
  ELSE LET pointer == (len % 64) * 256 + nextByte
           counted == [f EXCEPT !.length = IF f.jumped THEN @ ELSE @ + 2]
       IN IF pointer >= Len(f.message) THEN NameThrow(counted, ErrPointerOutOfRange)
          ELSE [counted EXCEPT !.currentOffset = pointer, !.jumped = TRUE]

\* A label that is counted whether or not a pointer was followed before it.
NameLabelAlwaysCounted(f, len) ==
  LET start == f.currentOffset + 1
      end == start + len
  IN IF end > Len(f.message) THEN NameThrow(f, ErrLabelOutOfRange)
     ELSE [f EXCEPT !.labels = Append(@, readLabel(f.message, start, len)),
                    !.reads = @ \cup start..(end - 1),
                    !.currentOffset = end,
                    !.length = @ + 1 + len]

\* Lines 1234-1243: a label.
NameLabel(f, len) ==
  LET start == f.currentOffset + 1
      end == start + len
  IN IF end > Len(f.message) THEN NameThrow(f, ErrLabelOutOfRange)
     ELSE [f EXCEPT !.labels = Append(@, readLabel(f.message, start, len)),
                    !.reads = @ \cup start..(end - 1),
                    !.currentOffset = end,
                    !.length = IF f.jumped THEN @ ELSE @ + 1 + len]

\* A decoder that takes every length byte below 0xC0 for a label length.
NameByteAnyLabelLength(f, len) ==
  IF len >= 192
  THEN NamePointer([f EXCEPT !.reads = @ \cup {f.currentOffset + 1}], len,
                   ByteAt(f.message, f.currentOffset + 1))
  ELSE IF len = 0
  THEN [f EXCEPT !.pc = "returned", !.length = IF f.jumped THEN @ ELSE @ + 1]
  ELSE NameLabel(f, len)

\* Lines 1204-1243: what the byte at currentOffset leads to.
NameByte(f, len) ==
  IF len >= 192
  THEN NamePointer([f EXCEPT !.reads = @ \cup {f.currentOffset + 1}], len,
                   ByteAt(f.message, f.currentOffset + 1))
  ELSE IF len = 0
  THEN [f EXCEPT !.pc = "returned", !.length = IF f.jumped THEN @ ELSE @ + 1]
  ELSE IF len > 63 THEN NameThrow(f, ErrLabelLength)
  ELSE NameLabel(f, len)

\* A turn that does not count itself.
NameGuardNone(f) ==
  LET turn == [f EXCEPT !.path = Append(@, f.currentOffset)]
  IN IF f.currentOffset >= Len(f.message) THEN NameThrow(turn, ErrDnsName)
     ELSE NameByte([turn EXCEPT !.reads = @ \cup {f.currentOffset}],
                   ByteAt(f.message, f.currentOffset))

\* A turn whose cap is half the length of the message.
NameGuardHalf(f) ==
  LET turn == [f EXCEPT !.path = Append(@, f.currentOffset)]
  IN IF f.safety * 2 > Len(f.message) THEN NameThrow(turn, ErrNameSafety)
     ELSE IF f.currentOffset >= Len(f.message)
     THEN NameThrow([turn EXCEPT !.safety = @ + 1], ErrDnsName)
     ELSE NameByte([turn EXCEPT !.safety = @ + 1,
                                !.reads = @ \cup {f.currentOffset}],
                   ByteAt(f.message, f.currentOffset))

\* Lines 1195-1204: the guards of a turn.
NameGuard(f) ==
  LET turn == [f EXCEPT !.path = Append(@, f.currentOffset)]
  IN IF f.safety > Len(f.message) THEN NameThrow(turn, ErrNameSafety)
     ELSE IF f.currentOffset >= Len(f.message)
     THEN NameThrow([turn EXCEPT !.safety = @ + 1], ErrDnsName)
     ELSE NameByte([turn EXCEPT !.safety = @ + 1,
                                !.reads = @ \cup {f.currentOffset}],
                   ByteAt(f.message, f.currentOffset))

\* One turn of the loop of readDnsName.
readDnsNameTurn(f) == NameGuard(f)

RECURSIVE NameRun(_)
NameRun(f) == IF f.pc = "loop" THEN NameRun(readDnsNameTurn(f)) ELSE f

\* Line 1246, or the throw that ended the loop.
NameResult(f) ==
  IF f.pc = "thrown" THEN Throw(Error(f.err))
  ELSE Return([name |-> Join(f.labels, <<".">>), length |-> f.length])

readDnsName(message, offset) == NameResult(NameRun(NameFrame(message, offset)))

\* ------------------------------------------------------------ DNS queries
ErrUnsupportedType == <<"unsupported DNS record type">>

ToUpperTable ==
  [c \in Range(LowerCase) |->
     UpperCase[CHOOSE i \in DOMAIN LowerCase : LowerCase[i] = c]]

\* s.toUpperCase()
toUpperCase(s) ==
  [i \in DOMAIN s |-> IF s[i] \in DOMAIN ToUpperTable THEN ToUpperTable[s[i]] ELSE s[i]]

\* A JavaScript number: NaN, or a sign, a whole part and the digits of a
\* fraction without its trailing zeros.
NaN == [nan |-> TRUE, negative |-> FALSE, whole |-> 0, fraction |-> <<>>]
Num(whole) == [nan |-> FALSE, negative |-> FALSE, whole |-> whole, fraction |-> <<>>]

DecimalDigits == <<"0", "1", "2", "3", "4", "5", "6", "7", "8", "9">>
DigitValue == [c \in Range(DecimalDigits) |->
                 (CHOOSE i \in DOMAIN DecimalDigits : DecimalDigits[i] = c) - 1]
AllDigits(s) == \A i \in DOMAIN s : s[i] \in Range(DecimalDigits)

RECURSIVE DecimalValue(_)
DecimalValue(digits) ==
  IF digits = <<>> THEN 0
  ELSE DecimalValue(SubSeq(digits, 1, Len(digits) - 1)) * 10
         + DigitValue[digits[Len(digits)]]

RECURSIVE WithoutTrailingZeros(_)
WithoutTrailingZeros(digits) ==
  IF digits # <<>> /\ digits[Len(digits)] = "0"
  THEN WithoutTrailingZeros(SubSeq(digits, 1, Len(digits) - 1))
  ELSE digits

\* The value of the decimal literal whole.fraction, NaN if it is none.
DecimalLiteral(negative, whole, fraction) ==
  IF AllDigits(whole) /\ AllDigits(fraction) /\ (whole # <<>> \/ fraction # <<>>)
  THEN [nan |-> FALSE, negative |-> negative, whole |-> DecimalValue(whole),
        fraction |-> WithoutTrailingZeros(fraction)]
  ELSE NaN

\* The index of the first c in s, Len(s) + 1 if there is none.
RECURSIVE IndexOf(_, _)
IndexOf(s, c) ==
  IF s = <<>> THEN 1
  ELSE IF Head(s) = c THEN 1
  ELSE 1 + IndexOf(Tail(s), c)

UnsignedLiteral(negative, body, dot) ==
  DecimalLiteral(negative, SubSeq(body, 1, dot - 1), SubSeq(body, dot + 1, Len(body)))

\* Number(s), for a string without white space, exponent, radix prefix or
\* "Infinity": the empty string is 0, a signed decimal literal its value, any
\* other string NaN.
Number(s) ==
  IF s = <<>> THEN Num(0)
  ELSE IF s[1] \in {"-", "+"}
  THEN UnsignedLiteral(s[1] = "-", Tail(s), IndexOf(Tail(s), "."))
  ELSE UnsignedLiteral(FALSE, s, IndexOf(s, "."))

\* Number.isFinite(n) && n > 0
IsPositive(n) ==
  /\ ~n.nan
  /\ ~n.negative
  /\ (n.whole > 0 \/ n.fraction # <<>>)

\* recordTypeToNumber
recordTypeToNumber(recordType) ==
  IF toUpperCase(recordType) = <<"A">> THEN Return(Num(1))
  ELSE IF toUpperCase(recordType) = <<"A", "A", "A", "A">> THEN Return(Num(28))
  ELSE IF toUpperCase(recordType) = <<"H", "T", "T", "P", "S">>
  THEN Return(Num(HTTPS_RECORD_TYPE))
  ELSE IF IsPositive(Number(recordType)) THEN Return(Number(recordType))
  ELSE Throw(Error(ErrUnsupportedType))

\* The index of the k-th sep of s; 0 for k = 0, Len(s) + 1 past the last.
SeparatorAt(s, sep, k) ==
  IF k = 0 THEN 0
  ELSE IF k > Cardinality({i \in DOMAIN s : s[i] = sep}) THEN Len(s) + 1
  ELSE CHOOSE i \in DOMAIN s :
         /\ s[i] = sep
         /\ Cardinality({j \in 1..(i - 1) : s[j] = sep}) = k - 1

\* s.split(sep), for a one-character sep: the stretches between separators.
Split(s, sep) ==
  [k \in 1..(Cardinality({i \in DOMAIN s : s[i] = sep}) + 1) |->
     SubSeq(s, SeparatorAt(s, sep, k - 1) + 1, SeparatorAt(s, sep, k) - 1)]

\* The two bytes DataView.setUint16 writes for a number: its integer part
\* modulo 2^16, big-endian.
ToUint16(n) == IF n.nan THEN 0 ELSE n.whole % 65536
Uint16Bytes(value) == <<value \div 256, value % 256>>

\* Lines 829-837: the length byte and the characters of each label; a Uint8Array
\* element keeps the low byte of the code unit stored in it.
RECURSIVE EncodeLabels(_)
EncodeLabels(labels) ==
  IF labels = <<>> THEN <<>>
  ELSE <<Len(Head(labels))>>
         \o [i \in DOMAIN Head(labels) |-> charCodeAt(Head(labels)[i]) % 256]
         \o EncodeLabels(Tail(labels))

\* Line 808 and the `if (!label) continue` of lines 811 and 830.
QueryLabels(domain) ==
  SelectSeq(IF domain = <<>> THEN <<>> ELSE Split(domain, "."),
            LAMBDA label : label # <<>>)

\* buildDnsQueryMessage, id being what generateRequestId returns.
buildDnsQueryMessage(domain, recordType, id) ==
  IF \E i \in DOMAIN QueryLabels(domain) : Len(QueryLabels(domain)[i]) > 63
  THEN Throw(Error(ErrLabelTooLong))
  ELSE Return(Uint16Bytes(id) \o <<1, 0>> \o <<0, 1>> \o <<0, 0, 0, 0, 0, 0>>
                \o EncodeLabels(QueryLabels(domain)) \o <<0>>
                \o Uint16Bytes(ToUint16(recordType)) \o <<0, 1>>)

\* Lines 641-643 of buildDohWireUrl, hostname being what normalizeDomain
\* returns: the record type, then the query.
WireQuery(type, hostname, id) ==
  IF recordTypeToNumber(type).thrown
  THEN [op |-> "buildDohWireUrl", type |-> type, hostname |-> hostname,
        recordType |-> recordTypeToNumber(type),
        query |-> Throw(recordTypeToNumber(type).err)]
  ELSE [op |-> "buildDohWireUrl", type |-> type, hostname |-> hostname,
        recordType |-> recordTypeToNumber(type),
        query |-> buildDnsQueryMessage(hostname, recordTypeToNumber(type).val, id)]

\* ------------------------------------------------------------ HTTPS records on the wire
StrPriority ==
  <<"p", "r", "i", "o", "r", "i", "t", "y", "=">>
StrTarget ==
  <<" ", "t", "a", "r", "g", "e", "t", "=">>
StrParamsOpen ==
  <<" ", "p", "a", "r", "a", "m", "s", "=", "[">>
StrParamSep ==
  <<",", " ">>
StrKey ==
  <<"k", "e", "y">>
StrEchconfig ==
  <<" ", "e", "c", "h", "c", "o", "n", "f", "i", "g">>

\* String(n), for a natural number
RECURSIVE Decimal(_)
Decimal(n) ==
  IF n < 10 THEN <<DecimalDigits[n + 1]>>
  ELSE Decimal(n \div 10) \o <<DecimalDigits[(n % 10) + 1]>>

\* The base64 alphabet of btoa.
Base64Alphabet ==
  <<"A", "B", "C", "D", "E", "F", "G", "H", "I", "J", "K", "L", "M", "N",
   "O", "P", "Q", "R", "S", "T", "U", "V", "W", "X", "Y", "Z", "a", "b", "c",
   "d", "e", "f", "g", "h", "i", "j", "k", "l", "m", "n", "o", "p", "q", "r",
   "s", "t", "u", "v", "w", "x", "y", "z", "0", "1", "2", "3", "4", "5", "6",
   "7", "8", "9", "+", "/">>

Base64Char(sextet) == Base64Alphabet[sextet + 1]

\* btoa of a binary string, by the bytes it was made of: three bytes give four
\* characters, a last group of one or two bytes is padded with "=".
RECURSIVE btoa(_)
btoa(bytes) ==
  IF bytes = <<>> THEN <<>>
  ELSE IF Len(bytes) = 1
  THEN <<Base64Char(bytes[1] \div 4), Base64Char((bytes[1] % 4) * 16), "=", "=">>
  ELSE IF Len(bytes) = 2
  THEN <<Base64Char(bytes[1] \div 4),
         Base64Char((bytes[1] % 4) * 16 + bytes[2] \div 16),
         Base64Char((bytes[2] % 16) * 4), "=">>
  ELSE <<Base64Char(bytes[1] \div 4),
         Base64Char((bytes[1] % 4) * 16 + bytes[2] \div 16),
         Base64Char((bytes[2] % 16) * 4 + bytes[3] \div 64),
         Base64Char(bytes[3] % 64)>>
         \o btoa(SubSeq(bytes, 4, Len(bytes)))

\* Lines 1031-1034 of bytesToBase64 alone: the binary string, one character
\* for each byte.
bytesToBinaryString(bytes) == [i \in DOMAIN bytes |-> fromCharCode(bytes[i])]

\* bytesToBase64
bytesToBase64(bytes) == btoa(bytes)

\* `key${key}(${valueLength}B)`
SvcParamText(key, valueLength) ==
  StrKey \o Decimal(key) \o <<"(">> \o Decimal(valueLength) \o <<"B", ")">>

NoParams == [params |-> <<>>, hasEch |-> FALSE, echBase64 |-> <<>>]

\* Lines 1156-1174: the loop over the parameters, from `cursor` on; `sofar` is
\* what the turns before have gathered.
RECURSIVE SvcParams(_, _, _, _, _)
SvcParamValue(message, offset, rdlength, cursor, key, valueLength, sofar) ==
  IF cursor + valueLength > rdlength THEN sofar
  ELSE SvcParams(message, offset, rdlength, cursor + valueLength,
                 [params |-> Append(sofar.params, SvcParamText(key, valueLength)),
                  hasEch |-> sofar.hasEch \/ key = 5,
                  echBase64 |->
                    IF key = 5
                    THEN bytesToBase64(Subarray(message, offset + cursor,
                                                offset + cursor + valueLength))
                    ELSE sofar.echBase64])

SvcParams(message, offset, rdlength, cursor, sofar) ==
  IF cursor >= rdlength \/ cursor + 4 > rdlength THEN sofar
  ELSE SvcParamValue(message, offset, rdlength, cursor + 4,
                     Uint16At(message, offset + cursor),
                     Uint16At(message, offset + cursor + 2), sofar)

\* Lines 1176-1184: the description.
SvcDescription(priority, name, found) ==
  [hasEch |-> found.hasEch,
   description |->
     StrPriority \o Decimal(priority) \o StrTarget
       \o (IF name # <<>> THEN name ELSE <<".">>)
       \o (IF Len(found.params) > 0
           THEN StrParamsOpen \o Join(found.params, StrParamSep) \o <<"]">>
           ELSE <<>>)
       \o (IF ~found.hasEch THEN <<>>
           ELSE IF found.echBase64 # <<>>
           THEN StrDescEch \o found.echBase64
           ELSE StrEchconfig)]

\* Lines 1145-1184, given what readDnsName made of the target name.
SvcRecord(message, offset, rdlength, nameInfo) ==
  IF nameInfo.thrown THEN nameInfo
  ELSE Return(SvcDescription(
                Uint16At(message, offset), nameInfo.val.name,
                SvcParams(message, offset, rdlength, 2 + nameInfo.val.length,
                          NoParams)))

\* parseHttpsSvcbRecord
parseHttpsSvcbRecord(message, offset, rdlength) ==
  IF offset + rdlength > Len(message)
  THEN Return([hasEch |-> FALSE, description |-> <<>>])
  ELSE IF rdlength < 4 THEN Return([hasEch |-> FALSE, description |-> <<>>])
  ELSE SvcRecord(message, offset, rdlength, readDnsName(message, offset + 2))

\* ------------------------------------------------------------ DNS responses
ErrRange == <<"Offset is outside the bounds of the DataView">>

\* DataView.getUint16(i) on a view of the whole message: a RangeError when the
\* two bytes are not inside it.
getUint16(message, i) ==
  IF i < 0 \/ i + 2 > Len(message) THEN Throw(Error(ErrRange))
  ELSE Return(Uint16At(message, i))

\* Lines 1051-1055 / 1096-1100: the questions are skipped; the offset behind
\* them, or what readDnsName threw.
RECURSIVE SkipQuestions(_, _, _)
SkipQuestion(message, remaining, offset, nameInfo) ==
  IF nameInfo.thrown THEN nameInfo
  ELSE SkipQuestions(message, offset + nameInfo.val.length + 4, remaining - 1)

SkipQuestions(message, offset, remaining) ==
  IF remaining = 0 THEN Return(offset)
  ELSE SkipQuestion(message, remaining, offset, readDnsName(message, offset))

\* formatIpv4
formatIpv4(bytes) ==
  Decimal(bytes[1]) \o <<".">> \o Decimal(bytes[2]) \o <<".">>
    \o Decimal(bytes[3]) \o <<".">> \o Decimal(bytes[4])

HexDigits ==
  <<"0", "1", "2", "3", "4", "5", "6", "7", "8", "9", "a", "b", "c", "d", "e", "f">>

\* n.toString(16)
RECURSIVE Hex(_)
Hex(n) ==
  IF n < 16 THEN <<HexDigits[n + 1]>>
  ELSE Hex(n \div 16) \o <<HexDigits[(n % 16) + 1]>>

\* formatIpv6
formatIpv6(bytes) ==
  Join([i \in 1..8 |-> Hex(bytes[2 * i - 1] * 256 + bytes[2 * i])], <<":">>)

\* seen.add(ip)
SetAdd(seen, ip) == IF ip \in Range(seen) THEN seen ELSE Append(seen, ip)

\* Lines 1070-1076: what an answer adds to the addresses seen.
SeenWith(message, offset, type, rdlength, seen) ==
  IF type = 1 /\ rdlength = 4
  THEN SetAdd(seen, formatIpv4(Subarray(message, offset, offset + 4)))
  ELSE IF type = 28 /\ rdlength = 16
  THEN SetAdd(seen, formatIpv6(Subarray(message, offset, offset + 16)))
  ELSE seen

\* Lines 1057-1079: the loop over the answers, from `offset` on.
RECURSIVE IpAnswers(_, _, _, _)
IpAnswerData(message, offset, remaining, seen, type, rdlength) ==
  IF type.thrown THEN type
  ELSE IF rdlength.thrown THEN rdlength
  ELSE IF offset + rdlength.val > Len(message) THEN Return(seen)
  ELSE IpAnswers(message, offset + rdlength.val, remaining - 1,
                 SeenWith(message, offset, type.val, rdlength.val, seen))

\* An answer loop that reads the fixed fields without the test of line 1061.
IpAnswerFieldsUnguarded(message, offset, remaining, seen) ==
  IpAnswerData(message, offset + 10, remaining, seen,
               getUint16(message, offset), getUint16(message, offset + 8))

\* Lines 1061-1067: the fixed fields of an answer.
IpAnswerFields(message, offset, remaining, seen) ==
  IF offset + 10 > Len(message) THEN Return(seen)
  ELSE IpAnswerData(message, offset + 10, remaining, seen,
                    getUint16(message, offset), getUint16(message, offset + 8))

IpAnswer(message, offset, remaining, seen, nameInfo) ==
  IF nameInfo.thrown THEN nameInfo
  ELSE IpAnswerFields(message, offset + nameInfo.val.length, remaining, seen)

IpAnswers(message, offset, remaining, seen) ==
  IF remaining = 0 THEN Return(seen)
  ELSE IpAnswer(message, offset, remaining, seen, readDnsName(message, offset))

IpsBehindQuestions(message, skipped) ==
  IF skipped.thrown THEN skipped
  ELSE IpAnswers(message, skipped.val, Uint16At(message, 6), <<>>)

\* extractIpsFromDnsMessage
extractIpsFromDnsMessage(message) ==
  IF Len(message) < 12 THEN Return(<<>>)
  ELSE IpsBehindQuestions(message, SkipQuestions(message, 12, Uint16At(message, 4)))

\* Lines 1115-1125: an answer of type HTTPS, given what parseHttpsSvcbRecord
\* made of it; an answer of another type.
RECURSIVE HttpsAnswerLoop(_, _, _, _)
HttpsAnswerParsed(message, offset, remaining, fallbackRecord, parsed) ==
  IF parsed.thrown THEN parsed
  ELSE IF parsed.val.hasEch
  THEN Return([found |-> TRUE, record |-> parsed.val.description, error |-> <<>>])
  ELSE HttpsAnswerLoop(message, offset, remaining - 1,
                    IF fallbackRecord = NoRecord /\ parsed.val.description # <<>>
                    THEN parsed.val.description ELSE fallbackRecord)

HttpsAnswerData(message, offset, remaining, fallbackRecord, type, rdlength) ==
  IF type.thrown THEN type
  ELSE IF rdlength.thrown THEN rdlength
  ELSE IF offset + rdlength.val > Len(message)
  THEN Return([found |-> FALSE, record |-> fallbackRecord, error |-> <<>>])
  ELSE IF type.val = HTTPS_RECORD_TYPE
  THEN HttpsAnswerParsed(message, offset + rdlength.val, remaining, fallbackRecord,
                         parseHttpsSvcbRecord(message, offset, rdlength.val))
  ELSE HttpsAnswerLoop(message, offset + rdlength.val, remaining - 1, fallbackRecord)

\* Lines 1106-1112: the fixed fields of an answer.
HttpsAnswerFields(message, offset, remaining, fallbackRecord) ==
  IF offset + 10 > Len(message)
  THEN Return([found |-> FALSE, record |-> fallbackRecord, error |-> <<>>])
  ELSE HttpsAnswerData(message, offset + 10, remaining, fallbackRecord,
                       getUint16(message, offset), getUint16(message, offset + 8))

HttpsAnswer(message, offset, remaining, fallbackRecord, nameInfo) ==
  IF nameInfo.thrown THEN nameInfo
  ELSE HttpsAnswerFields(message, offset + nameInfo.val.length, remaining,
                         fallbackRecord)

\* Lines 1102-1126 and 1131: the loop over the answers, from `offset` on.
HttpsAnswerLoop(message, offset, remaining, fallbackRecord) ==
  IF remaining = 0
  THEN Return([found |-> FALSE, record |-> fallbackRecord, error |-> <<>>])
  ELSE HttpsAnswer(message, offset, remaining, fallbackRecord,
                   readDnsName(message, offset))

HttpsBehindQuestions(message, skipped) ==
  IF skipped.thrown THEN skipped
  ELSE HttpsAnswerLoop(message, skipped.val, Uint16At(message, 6), NoRecord)

\* Lines 1095-1129: the try block and its catch.
HttpsTried(tried) ==
  IF tried.thrown
  THEN [found |-> FALSE, record |-> NoRecord,
        error |-> normalizeErrorMessage(tried.err)]
  ELSE tried.val

\* findHttpsRecordInDnsMessage
findHttpsRecordInDnsMessage(message) ==
  IF Len(message) < 12
  THEN [found |-> FALSE, record |-> NoRecord, error |-> ErrMessageTooShort]
  ELSE HttpsTried(HttpsBehindQuestions(
                    message, SkipQuestions(message, 12, Uint16At(message, 4))))

\* ------------------------------------------------------------ the wire codec alone
\* A call of readDnsName on every message of NameMessages, at every offset
\* from 0 to the length of the message.
NameBytes == {0, 1, 2, 64, 192}
NameMessages == UNION {[1..n -> NameBytes] : n \in 0..MaxMessageLen}

\* readDnsName(message, offset) is called.
CallReadDnsName ==
  /\ pc = "idle"
  /\ frame = NoFrame
  /\ \E message \in NameMessages :
       \E offset \in 0..Len(message) : frame' = NameFrame(message, offset)
  /\ UNCHANGED <<check, pc, doh, ech, details, comparison, echStrings, report>>

\* One turn of the loop of readDnsName.
ReadDnsNameTurn ==
  /\ frame.op = "readDnsName"
  /\ frame.pc = "loop"
  /\ frame' = readDnsNameTurn(frame)
  /\ UNCHANGED <<check, pc, doh, ech, details, comparison, echStrings, report>>

\* The record types handed to buildDohWireUrl: the names in either case,
\* integers, other decimal literals, other strings.
RecordTypes ==
  {<<"A">>, <<"a">>, <<"A", "A", "A", "A">>, <<"a", "A", "a", "A">>,
   <<"H", "T", "T", "P", "S">>, <<"h", "t", "t", "p", "s">>, <<"1">>,
   <<"2", "8">>, <<"6", "5">>, <<"0", "6", "5">>, <<"0">>, <<"-", "1">>,
   <<"1", ".", "5">>, <<"6", "5", ".", "0">>, <<"0", ".", "5">>,
   <<".", "5">>, <<"7", "0", "0", "0", "0">>, <<"6", "5", "6", "0", "1">>,
   <<"a", "b", "c">>, <<>>, <<"A", "1">>, <<"6", "-", "5">>, <<"+", "7">>}

\* Host names: every string of up to MaxDomainLen characters over a letter, a
\* character outside Latin-1 and the dot, and names with a label of 63 and of
\* 64 characters.
DomainChars == {"a", ".", "U+0101"}
LongLabel(n) == [i \in 1..n |-> "b"]
Hostnames ==
  UNION {[1..n -> DomainChars] : n \in 0..MaxDomainLen}
    \cup {LongLabel(63), LongLabel(64), <<"a", ".">> \o LongLabel(63),
          LongLabel(63) \o <<".", "a">>, <<"a", ".">> \o LongLabel(64)}

\* What generateRequestId returns.
RequestIds == {0, 4660, 65535}

\* buildDohWireUrl(endpoint, name, type) builds its query.
BuildWireQuery ==
  /\ pc = "idle"
  /\ frame = NoFrame
  /\ \E type \in RecordTypes, hostname \in Hostnames, id \in RequestIds :
       frame' = WireQuery(type, hostname, id)
  /\ UNCHANGED <<check, pc, doh, ech, details, comparison, echStrings, report>>

\* The rdata of an HTTPS record: a priority, a target name as it stands on
\* the wire, parameters.
SvcPriorities == {1, 300}
SvcTargets == {<<0>>, <<1, 97, 0>>, <<192, 0>>}
SvcKeys == {1, 5}
SvcValues == {<<>>, <<255>>, <<222, 173>>, <<0, 16, 131>>}
SvcParamSet == [key : SvcKeys, value : SvcValues]
SvcParamLists == UNION {[1..n -> SvcParamSet] : n \in 0..MaxParams}

RECURSIVE SvcParamBytes(_)
SvcParamBytes(params) ==
  IF params = <<>> THEN <<>>
  ELSE Uint16Bytes(Head(params).key) \o Uint16Bytes(Len(Head(params).value))
         \o Head(params).value \o SvcParamBytes(Tail(params))

SvcRdata(priority, target, params) ==
  Uint16Bytes(priority) \o target \o SvcParamBytes(params)

\* parseHttpsSvcbRecord(message, offset, rdlength) is called on a message made
\* of a root name, an rdata block and one more byte, with every rdlength from 0
\* to one byte past the block.
ParseSvcbRecord ==
  /\ pc = "idle"
  /\ frame = NoFrame
  /\ \E priority \in SvcPriorities, target \in SvcTargets, params \in SvcParamLists :
       \E rdlength \in 0..(Len(SvcRdata(priority, target, params)) + 2) :
         frame' =
           [op |-> "parseHttpsSvcbRecord",
            message |-> <<0>> \o SvcRdata(priority, target, params) \o <<0>>,
            offset |-> 1, rdlength |-> rdlength,
            priority |-> priority, target |-> target, params |-> params,
            result |-> parseHttpsSvcbRecord(
                         <<0>> \o SvcRdata(priority, target, params) \o <<0>>,
                         1, rdlength)]
  /\ UNCHANGED <<check, pc, doh, ech, details, comparison, echStrings, report>>

\* Responses: a header, the question "a" and answers, each with the name as a
\* pointer to the question; every prefix of such a message.
ResourceRecord(type, rdata) ==
  <<192, 12>> \o Uint16Bytes(type) \o <<0, 1>> \o <<0, 0, 0, 60>>
    \o Uint16Bytes(Len(rdata)) \o rdata

Response4(i) == ResourceRecord(1, <<192, 0, 2, i>>)
Response6 == ResourceRecord(28, <<32, 1, 13, 184, 0, 0, 0, 0, 0, 0, 0, 0, 0, 0, 0, 1>>)
ResponseCname == ResourceRecord(5, <<192, 12>>)
ResponseHttps(priority, params) ==
  ResourceRecord(HTTPS_RECORD_TYPE, SvcRdata(priority, <<0>>, params))

\* HTTPS answers: with a parameter other than ech (priority 1, priority 2),
\* with ech (priority 3, priority 4), in alias form (priority 0, no parameter).
HttpsPlain(priority) == ResponseHttps(priority, <<[key |-> 1, value |-> <<0, 16, 131>>]>>)
HttpsEch(priority) == ResponseHttps(priority, <<[key |-> 5, value |-> <<222, 173>>]>>)
HttpsAlias == ResponseHttps(0, <<>>)

AddressAnswers ==
  {Response4(1), Response4(2), Response6, ResponseCname, HttpsPlain(1)}
HttpsRecordAnswers ==
  {ResponseCname, HttpsPlain(1), HttpsPlain(2), HttpsEch(3), HttpsEch(4), HttpsAlias}

WireResponse(type, answers) ==
  <<18, 52, 129, 128>> \o <<0, 1>> \o Uint16Bytes(Len(answers)) \o <<0, 0, 0, 0>>
    \o <<1, 97, 0>> \o Uint16Bytes(type) \o <<0, 1>> \o Flatten(answers)

\* extractIpsFromDnsMessage(buffer) is called.
ExtractIps ==
  /\ pc = "idle"
  /\ frame = NoFrame
  /\ \E n \in 0..MaxAnswers :
       \E answers \in [1..n -> AddressAnswers] :
         \E cut \in 0..Len(WireResponse(1, answers)) :
           frame' =
             [op |-> "extractIpsFromDnsMessage", answers |-> answers,
              message |-> SubSeq(WireResponse(1, answers), 1, cut),
              result |-> extractIpsFromDnsMessage(
                           SubSeq(WireResponse(1, answers), 1, cut))]
  /\ UNCHANGED <<check, pc, doh, ech, details, comparison, echStrings, report>>

\* findHttpsRecordInDnsMessage(buffer) is called.
FindHttpsRecord ==
  /\ pc = "idle"
  /\ frame = NoFrame
  /\ \E n \in 0..MaxAnswers :
       \E answers \in [1..n -> HttpsRecordAnswers] :
         \E cut \in 0..Len(WireResponse(HTTPS_RECORD_TYPE, answers)) :
           frame' =
             [op |-> "findHttpsRecordInDnsMessage", answers |-> answers,
              message |-> SubSeq(WireResponse(HTTPS_RECORD_TYPE, answers), 1, cut),
              result |-> findHttpsRecordInDnsMessage(
                           SubSeq(WireResponse(HTTPS_RECORD_TYPE, answers), 1, cut))]
  /\ UNCHANGED <<check, pc, doh, ech, details, comparison, echStrings, report>>

\* Texts that may name an ech parameter: what stands before it, the phrase
\* (none for a text without one), the token, bare or in quotes, and what
\* follows.
EchPhrases ==
  {StrEchEq, <<"E", "C", "H", "=">>, StrEch \o StrConfigBase64 \o <<"=">>, <<>>}
EchTokens == {<<"A", "E", "X", "1">>, <<"A", "s", "0", "=">>, <<"s", "g", "=", "=">>}
EchSuffixes ==
  {<<>>, <<" ", "i", "p", "v", "6", "h", "i", "n", "t", "=", ":", ":", "1">>}
EchTextParts ==
  [prefix : {<<>>, StrJsonDataPrefix}, phrase : EchPhrases, token : EchTokens,
   quoted : BOOLEAN, suffix : EchSuffixes]

EchText(parts) ==
  parts.prefix \o parts.phrase
    \o (IF parts.quoted THEN <<Quote>> \o parts.token \o <<Quote>> ELSE parts.token)
    \o parts.suffix

\* The results extractEchConfigString is given: one that found ECH, with the
\* text as its record; one without a record, with the text as its raw payload;
\* one with a fallback record, with the text as its raw payload; one with a
\* fallback record or no record and a payload that is no text.
EchExtractionInputs ==
  {[layout |-> "record", parts |-> parts, found |-> TRUE, record |-> EchText(parts),
    raw |-> RawJson] :
     parts \in {p \in EchTextParts :
                  p.phrase \in {StrEchEq, StrEch \o StrConfigBase64 \o <<"=">>}}}
    \cup {[layout |-> "text", parts |-> parts, found |-> FALSE, record |-> NoRecord,
           raw |-> RawText(EchText(parts))] : parts \in EchTextParts}
    \cup {[layout |-> "fallback and text", parts |-> parts, found |-> FALSE,
           record |-> StrDescFallback, raw |-> RawText(EchText(parts))] :
            parts \in EchTextParts}
    \cup {[layout |-> "no text", parts |-> parts, found |-> FALSE, record |-> record,
           raw |-> raw] :
            parts \in {p \in EchTextParts :
                         /\ p.prefix = <<>> /\ p.phrase = <<>> /\ ~p.quoted
                         /\ p.suffix = <<>> /\ p.token = <<"A", "E", "X", "1">>},
            record \in {NoRecord, StrDescFallback},
            raw \in {RawUndefined, RawNull, RawJson, RawDnsMessage}}

\* extractEchConfigString(result) is called.
ExtractEchConfigString ==
  /\ pc = "idle"
  /\ frame = NoFrame
  /\ \E input \in EchExtractionInputs :
       frame' =
         [op |-> "extractEchConfigString", layout |-> input.layout,
          parts |-> input.parts,
          result |-> [found |-> input.found, record |-> input.record,
                      raw |-> input.raw],
          value |-> extractEchConfigString(
                      [found |-> input.found, record |-> input.record,
                       raw |-> input.raw])]
  /\ UNCHANGED <<check, pc, doh, ech, details, comparison, echStrings, report>>

\* HTTPS answers with an ech parameter: the values of key 5 (their base64 texts
\* are "", "3q0=", "ABCD", "As0=", "sg==" and "Ssss") and the parameter
\* lists, with or without a parameter of key 1 before or behind it.
EchKeyValues ==
  {<<>>, <<222, 173>>, <<0, 16, 131>>, <<2, 205>>, <<178>>, <<74, 203, 44>>}
OtherParams == {<<>>, <<[key |-> 1, value |-> <<0, 16, 131>>]>>}

\* A wire-mode HTTPS attempt decodes a response whose one answer is an HTTPS
\* record with an ech parameter (lines 590-605), and extractEchConfigString
\* reads the attempt's result as compareEchResults does.
WireEchConfigString ==
  /\ pc = "idle"
  /\ frame = NoFrame
  /\ \E value \in EchKeyValues, before \in OtherParams, behind \in OtherParams,
        priority \in SvcPriorities, status \in Statuses :
       LET params == before \o <<[key |-> 5, value |-> value]>> \o behind
           message == WireResponse(HTTPS_RECORD_TYPE, <<ResponseHttps(priority, params)>>)
           attempt == performHttpsRequest(
                        TRUE, "ok", "wire",
                        Response(status, 12, WireContentType,
                                 EchWireBody(findHttpsRecordInDnsMessage(message)))).val
       IN frame' =
            [op |-> "wireEchConfigString", echValue |-> value, params |-> params,
             message |-> message, result |-> attempt,
             value |-> extractEchConfigString(attempt)]
  /\ UNCHANGED <<check, pc, doh, ech, details, comparison, echStrings, report>>

NextWire ==
  \/ CallReadDnsName
  \/ ReadDnsNameTurn
  \/ BuildWireQuery
  \/ ParseSvcbRecord
  \/ ExtractIps
  \/ FindHttpsRecord
  \/ ExtractEchConfigString
  \/ WireEchConfigString

SpecWire == Init /\ [][NextWire]_vars

\* ------------------------------------------------------------ properties
\* runDohCheck has returned its report.
DohCheckDone == pc = "done" /\ check.kind = "doh"
\* runEchCheck has returned its report.
EchCheckDone == pc = "done" /\ check.kind = "ech"

\* The reference's reported result succeeded with the target's set of addresses.
SameIpSet(reference) ==
  /\ report.details[reference].ok
  /\ Range(report.details[reference].ips) = Range(report.details["target"].ips)

\* C1: in a finished A-record check whose target result is successful, both
\* references having succeeded with the target's IP set gives success, exactly
\* one gives partial_match with the message that names that reference, and
\* neither gives failure.
C1_StatusFromIpSets ==
  (DohCheckDone /\ report.details["target"].ok) =>
    /\ (SameIpSet("cloudflare") /\ SameIpSet("google")) =>
         report.status = "success"
    /\ (SameIpSet("cloudflare") /\ ~SameIpSet("google")) =>
         /\ report.status = "partial_match"
         /\ SubSeq(report.message, 1, 1) = MsgMatchesCloudflare
    /\ (~SameIpSet("cloudflare") /\ SameIpSet("google")) =>
         /\ report.status = "partial_match"
         /\ SubSeq(report.message, 1, 1) = MsgMatchesGoogle
    /\ (~SameIpSet("cloudflare") /\ ~SameIpSet("google")) =>
         report.status = "failure"

\* C1, witness: the target agrees with Cloudflare, whose addresses came in
\* another order, and not with Google, which succeeded with another set.
C1_PartialMatchReached ==
  /\ DohCheckDone
  /\ report.details["target"].ok
  /\ SameIpSet("cloudflare")
  /\ report.details["cloudflare"].ips # report.details["target"].ips
  /\ report.details["google"].ok
  /\ ~SameIpSet("google")
  /\ report.status = "partial_match"

\* C2, as claimed: whenever the target result of a finished A-record check is
\* not successful, the status is failure and the message equals the target
\* result's error text.
C2_MessageEqualsTargetError ==
  (DohCheckDone /\ ~report.details["target"].ok) =>
    /\ report.status = "failure"
    /\ report.message = report.details["target"].error

\* The sentence runDohCheck adds to the message for an ECH verdict.
EchSentence(consistent) ==
  CASE consistent = "true" -> MsgEchConsistent
    [] consistent = "false" -> MsgEchInconsistent
    [] OTHER -> <<>>

\* C2, amended: whenever the target result of a finished A-record check is not
\* successful, the status is failure and the message is the target result's
\* error text, followed by the ECH sentence when the ECH verdict is true or
\* false, whatever the reference providers' results.
C2_MessageBeginsWithTargetError ==
  (DohCheckDone /\ ~report.details["target"].ok) =>
    /\ report.status = "failure"
    /\ report.details["target"].error # <<>>
    /\ report.message =
         report.details["target"].error \o EchSentence(report.ech_comparison.consistent)

\* C2, witness: the target failed, a reference succeeded, and the ECH verdict
\* added its sentence to the message.
C2_TargetFailureReached ==
  /\ DohCheckDone
  /\ ~report.details["target"].ok
  /\ report.details["cloudflare"].ok
  /\ report.ech_comparison.consistent = "false"
  /\ report.message # report.details["target"].error

\* The ECH match the report gives for a reference.
ReportedEchMatch(reference) ==
  IF reference = "cloudflare" THEN report.ech_comparison.matches_cloudflare
  ELSE report.ech_comparison.matches_google

\* C3: for the ECH config strings of the target and of each reference, both
\* absent gives null, target absent and reference present gives false, target
\* present and reference absent gives null, both present and equal gives true,
\* both present and unequal gives false.
C3_EchMatchTable ==
  DohCheckDone =>
    \A reference \in References :
      LET target == echStrings["target"]
          other == echStrings[reference]
          match == ReportedEchMatch(reference)
      IN /\ (target = NullStr /\ other = NullStr) => match = "null"
         /\ (target = NullStr /\ other # NullStr) => match = "false"
         /\ (target # NullStr /\ other = NullStr) => match = "null"
         /\ (target # NullStr /\ other # NullStr /\ target = other) => match = "true"
         /\ (target # NullStr /\ other # NullStr /\ target # other) => match = "false"

\* C3, witness: every row of the table in one report or another; here the
\* target has a config, Cloudflare another one, and Google none.
C3_RowsReached ==
  /\ DohCheckDone
  /\ echStrings["target"] \in EchConfigs
  /\ echStrings["cloudflare"] \in EchConfigs \ {echStrings["target"]}
  /\ echStrings["google"] = NullStr
  /\ report.ech_comparison.matches_cloudflare = "false"
  /\ report.ech_comparison.matches_google = "null"

\* C4: consistent is true exactly when both reference matches are true, false
\* when either is false, and null in every other case.
C4_ConsistentVerdict ==
  DohCheckDone =>
    LET a == report.ech_comparison.matches_cloudflare
        b == report.ech_comparison.matches_google
        consistent == report.ech_comparison.consistent
    IN /\ {a, b, consistent} \subseteq {"true", "false", "null"}
       /\ (consistent = "true") <=> (a = "true" /\ b = "true")
       /\ (a = "false" \/ b = "false") => consistent = "false"
       /\ (~(a = "true" /\ b = "true") /\ a # "false" /\ b # "false") =>
            consistent = "null"

\* C4, witness: Cloudflare matches, Google has no config, the verdict is null.
C4_MatchAndAbsentReached ==
  /\ DohCheckDone
  /\ report.ech_comparison.matches_cloudflare = "true"
  /\ report.ech_comparison.matches_google = "null"
  /\ report.ech_comparison.consistent = "null"

\* C5: a call of fetchDohAnswer makes one JSON attempt, then one wire attempt,
\* and no other; what it returns has attempted_formats [json, wire] and holds
\* the two attempts in that order.
C5_AlwaysBothEncodings ==
  \A p \in ProviderKey :
    LET q == doh[p]
    IN /\ q.pc = "idle" => q.tried = <<>>
       /\ q.pc = "json" => q.tried = <<>>
       /\ q.pc = "wire" => q.tried = <<"json">>
       /\ q.pc = "settled" =>
            /\ q.tried = <<"json", "wire">>
            /\ q.outcome = "fulfilled"
            /\ q.value[1].attempted_formats = <<"json", "wire">>
            /\ Len(q.value[1].mode_results) = 2
            /\ q.value[1].mode_results[1].mode = "json"
            /\ q.value[1].mode_results[2].mode = "wire"
            /\ q.value[1].mode_results = q.attempts

\* C5, witness: the JSON attempt succeeded and the wire attempt was made, with
\* its HTTP call.
C5_WireAfterJsonSuccessReached ==
  /\ doh["target"].pc = "settled"
  /\ doh["target"].value[1].mode_results[1].ok
  /\ doh["target"].calls = <<"json", "wire">>
  /\ doh["target"].value[1].attempted_formats = <<"json", "wire">>

\* C6: a call of fetchHttpsRecord whose JSON attempt finds ECH returns that
\* attempt and issues no wire call; a wire call is issued only after a JSON
\* attempt that did not find ECH, and once at most.
C6_EchShortCircuit ==
  \A p \in ProviderKey :
    LET q == ech[p]
    IN /\ q.calls \in {<<>>, <<"json">>, <<"json", "wire">>}
       /\ q.tried \in {<<>>, <<"json">>, <<"json", "wire">>}
       /\ \A i \in DOMAIN q.attempts : ~q.attempts[i].found
       /\ "wire" \in Range(q.calls) \cup {q.pc} =>
            /\ Len(q.attempts) >= 1
            /\ q.attempts[1].attempted_formats = <<"json">>
       /\ (q.pc = "settled" /\ q.value[1].found
             /\ q.value[1].attempted_formats = <<"json">>) =>
            /\ q.tried = <<"json">>
            /\ q.calls = <<"json">>
            /\ q.attempts = <<>>

\* C6, witness: the JSON attempt found ECH and the query settled on it.
C6_JsonFoundReached ==
  /\ ech["target"].pc = "settled"
  /\ ech["target"].value[1].found
  /\ ech["target"].value[1].response_format = "json"
  /\ ech["target"].calls = <<"json">>

\* The providers a check queries for HTTPS records.
EchProviders == IF check.kind = "ech" THEN References ELSE ProviderKey

\* C7, as claimed: the comparison of an A-record check is computed only when
\* every provider query of the check, for A records and for HTTPS records, has
\* been launched and has settled.
C7_NoComparisonBeforeEveryQuerySettled ==
  (check.kind = "doh" /\ comparison # <<>>) =>
    /\ AllSettled(doh, ProviderKey)
    /\ AllSettled(ech, ProviderKey)

\* The query is at one of its attempts: its next step waits for nothing but
\* its own HTTP exchange.
Running(q) == q.pc \in {"json", "wire"}

\* C7, amended: the queries of a batch (the A-record queries of a check, its
\* HTTPS queries) are launched together; what is computed from a batch is
\* computed once every query of that batch has settled; a query that has not
\* settled is at one of its attempts whatever became of the others, and the
\* report gives each provider the result of its own query.
C7_BatchesSettleBeforeComparison ==
  /\ (\E p \in ProviderKey : doh[p].pc # "idle") =>
       \A p \in ProviderKey : doh[p].pc # "idle"
  /\ (\E p \in ProviderKey : ech[p].pc # "idle") =>
       \A p \in EchProviders : ech[p].pc # "idle"
  /\ (details # <<>> \/ comparison # <<>>) => AllSettled(doh, ProviderKey)
  /\ (echStrings # <<>> \/ report # <<>>) => AllSettled(ech, EchProviders)
  /\ \A p \in ProviderKey :
       /\ (pc = "awaitDoh" /\ doh[p].pc # "settled") => Running(doh[p])
       /\ (pc = "awaitEch" /\ p \in EchProviders /\ ech[p].pc # "settled") =>
            Running(ech[p])
  /\ DohCheckDone =>
       \A p \in ProviderKey :
         /\ report.details[p] = doh[p].value[1]
         /\ report.ech_comparison[p] = ech[p].value[1]
  /\ EchCheckDone =>
       \A p \in References : report.providers[p] = ech[p].value[1]

\* C7, witness: the target's A-record query has failed for good while
\* Cloudflare's is still between its two attempts.
C7_FailureBesidePendingReached ==
  /\ pc = "awaitDoh"
  /\ doh["target"].pc = "settled"
  /\ ~doh["target"].value[1].ok
  /\ doh["cloudflare"].pc = "wire"
  /\ doh["google"].pc = "json"

\* The queries that have made an attempt.
Queries == {doh[p] : p \in ProviderKey} \cup {ech[p] : p \in ProviderKey}

\* C8: an attempt whose HTTP call timed out or failed at the network level is
\* unsuccessful, has status null and a non-empty error; and no query is
\* rejected, whatever its exchanges (failed calls, unreadable or undecodable
\* bodies).
C8_FailuresBecomeAttempts ==
  \A q \in Queries :
    /\ q.outcome # "rejected"
    /\ \A i \in DOMAIN q.attempts :
         q.fetches[i] \in FetchFailures =>
           /\ q.attempts[i].status = NullNum
           /\ q.attempts[i].error # <<>>
           /\ IF "ok" \in DOMAIN q.attempts[i]
              THEN ~q.attempts[i].ok ELSE ~q.attempts[i].found

\* C8, witness: a JSON call that timed out and a wire call whose body could
\* not be read, both kept as attempts of a fulfilled query.
C8_TimeoutAndBodyFailureReached ==
  /\ doh["target"].pc = "settled"
  /\ doh["target"].outcome = "fulfilled"
  /\ doh["target"].fetches = <<"timeout", "ok">>
  /\ doh["target"].attempts[1].error = ErrTimeout
  /\ doh["target"].attempts[2].error = ErrBodyRead

\* No attempt of the query got a response.
Unreached(q) == \A i \in DOMAIN q.fetches : q.fetches[i] # "ok"

\* C9: an A-record check none of whose A-record calls got a response is, until
\* it returns its report, at a query's attempt or at the end of an await, and
\* the report has status failure and, for each of the three providers, an
\* unsuccessful result with a non-empty error.
C9_UnreachableProvidersReport ==
  (check.kind = "doh" /\ \A p \in ProviderKey : Unreached(doh[p])) =>
    /\ pc = "awaitDoh" =>
         \/ \E p \in ProviderKey : Running(doh[p])
         \/ AllSettled(doh, ProviderKey)
    /\ pc = "awaitEch" =>
         \/ \E p \in ProviderKey : Running(ech[p])
         \/ AllSettled(ech, ProviderKey)
    /\ pc \in {"awaitDoh", "awaitEch", "done"}
    /\ pc = "done" =>
         /\ report.status = "failure"
         /\ DOMAIN report.details = ProviderKey
         /\ \A p \in ProviderKey :
              /\ ~report.details[p].ok
              /\ report.details[p].error # <<>>

\* C9, witness: the report of a check all of whose six A-record calls failed.
C9_AllUnreachableReached ==
  /\ DohCheckDone
  /\ \A p \in ProviderKey :
       /\ doh[p].calls = <<"json", "wire">>
       /\ doh[p].fetches = <<"timeout", "network">>
  /\ report.status = "failure"

\* C10: the result of every query that has settled, and every provider result
\* of a report, has a non-empty attempted_formats.
C10_AttemptedFormatsNonEmpty ==
  /\ \A q \in Queries :
       q.pc = "settled" =>
         /\ q.outcome = "fulfilled"
         /\ q.value[1].attempted_formats # <<>>
  /\ details # <<>> =>
       \A p \in ProviderKey : details[p].attempted_formats # <<>>
  /\ DohCheckDone =>
       \A p \in ProviderKey :
         /\ report.details[p].attempted_formats # <<>>
         /\ report.ech_comparison[p].attempted_formats # <<>>
  /\ EchCheckDone =>
       \A p \in References : report.providers[p].attempted_formats # <<>>

\* C10, witness: a report with a winning attempt (Cloudflare's HTTPS query), a
\* merged failure (the target's HTTPS query) and a failure made of attempts
\* that never left (the target's A-record query, its endpoint being no URL).
C10_EveryKindOfResultReached ==
  /\ DohCheckDone
  /\ report.ech_comparison["cloudflare"].found
  /\ ~report.ech_comparison["target"].found
  /\ report.details["target"].status = NullNum
  /\ doh["target"].calls = <<>>

\* C11: an A-record attempt is successful exactly when its status is in
\* 200..299 and it extracted at least one address; a successful result of
\* fetchDohAnswer has a non-empty address list, and the result of a query none
\* of whose attempts succeeded (the one combineDohFailures makes) is
\* unsuccessful.
C11_SucceededIffStatusAndAddress ==
  LET q == doh["target"]
  IN /\ \A i \in DOMAIN q.attempts :
          q.attempts[i].ok <=>
            (q.attempts[i].status \in 200..299 /\ q.attempts[i].ips # <<>>)
     /\ q.pc = "settled" =>
          /\ q.value[1].ok => q.value[1].ips # <<>>
          /\ q.value[1].ok <=> \E i \in DOMAIN q.attempts : q.attempts[i].ok
          /\ (\A i \in DOMAIN q.attempts : ~q.attempts[i].ok) =>
               /\ ~q.value[1].ok
               /\ q.value[1].error # <<>>

\* C11, witness: a JSON attempt that extracted addresses from a 503 response
\* and failed, then a wire attempt that extracted addresses from a 200
\* response and succeeded.
C11_FailedWithAddressesThenSucceededReached ==
  /\ doh["target"].pc = "settled"
  /\ doh["target"].attempts[1].status = 503
  /\ doh["target"].attempts[1].ips # <<>>
  /\ ~doh["target"].attempts[1].ok
  /\ doh["target"].attempts[2].status = 200
  /\ doh["target"].attempts[2].ok
  /\ doh["target"].value[1].ok
  /\ doh["target"].value[1].response_format = "wire"

\* readDnsName came back to an offset it had already stood at.
NameRevisits(f) ==
  \E i, j \in DOMAIN f.path : i < j /\ f.path[i] = f.path[j]

NameCallBounded ==
  frame.op = "readDnsName" =>
    /\ frame.safety <= Len(frame.message) + 1
    /\ Len(frame.path) <= Len(frame.message) + 2
    /\ frame.pc = "loop" => Len(frame.path) = frame.safety
    /\ frame.pc = "returned" =>
         /\ ~NameRevisits(frame)
         /\ Len(frame.path) <= Len(frame.message)
    /\ (frame.pc # "loop" /\ NameRevisits(frame)) =>
         /\ frame.pc = "thrown"
         /\ frame.err = ErrNameSafety
    /\ Len(frame.path) = Len(frame.message) + 2 =>
         /\ frame.pc = "thrown"
         /\ frame.err = ErrNameSafety

NameTurnCounted ==
  (frame.op = "readDnsName" /\ frame.pc = "loop") =>
    /\ frame'.op = "readDnsName"
    /\ Len(frame'.path) = Len(frame.path) + 1

\* C12: a call of readDnsName, on any message and offset, ends: every turn of
\* its loop is counted, no call begins more than message.length + 2 turns, and
\* a call that returns a name took at most message.length turns.  A call that
\* comes back to an offset it has visited (a pointer to itself, or pointers
\* that form a cycle) never returns a name: it throws the safety-limit error,
\* on the turn after message.length + 1 turns have run.
C12_NameDecodingEnds == []NameCallBounded /\ [][NameTurnCounted]_vars

\* C12, witness: a call on two pointers that point at each other has thrown
\* the safety-limit error.
C12_PointerCycleThrownReached ==
  /\ frame.op = "readDnsName"
  /\ frame.pc = "thrown"
  /\ frame.err = ErrNameSafety
  /\ Len(frame.path) = Len(frame.message) + 2
  /\ frame.path[1] # frame.path[2]
  /\ frame.path[3] = frame.path[1]
  /\ frame.jumped

\* The offsets of the path of f that hold a pointer.
NamePointerTurns(f) ==
  {i \in DOMAIN f.path :
     f.path[i] < Len(f.message) /\ ByteAt(f.message, f.path[i]) >= 192}

\* C15: the length readDnsName reports is the number of bytes between its
\* start offset and the end of the name as it stands in the stream: when no
\* pointer was followed, the labels and the terminating zero byte read from the
\* start offset on; when one was, the labels before the first pointer and the
\* two bytes of that pointer, whatever was read after the jump.
C15_LengthStopsAtFirstJump ==
  (frame.op = "readDnsName" /\ frame.pc # "thrown") =>
    LET turns == NamePointerTurns(frame)
    IN /\ frame.jumped <=> turns # {}
       /\ (~frame.jumped /\ frame.pc = "loop") =>
            frame.length = frame.currentOffset - frame.offset
       /\ (~frame.jumped /\ frame.pc = "returned") =>
            frame.length = frame.currentOffset - frame.offset + 1
       /\ frame.jumped =>
            \E first \in turns :
              /\ \A i \in turns : first <= i
              /\ frame.length = frame.path[first] - frame.offset + 2

\* C15, witness: a name returned after a label, a pointer and, behind the
\* pointer, the terminating zero byte: the length is that of the label and
\* the pointer.
C15_LabelThenPointerReached ==
  /\ frame.op = "readDnsName"
  /\ frame.pc = "returned"
  /\ frame.jumped
  /\ Len(frame.labels) = 1
  /\ Len(frame.path) = 3
  /\ frame.length = 4

\* The malformed element of message at offset `at`, "none" if the byte there
\* is a terminator, a label inside the message or a pointer into it.
Malformed(message, at) ==
  LET len == ByteAt(message, at)
  IN IF at >= Len(message) THEN ErrDnsName
     ELSE IF len >= 192 /\ at + 1 >= Len(message) THEN ErrPointerTruncated
     ELSE IF len >= 192 /\ (len - 192) * 256 + ByteAt(message, at + 1) >= Len(message)
     THEN ErrPointerOutOfRange
     ELSE IF len \in 64..191 THEN ErrLabelLength
     ELSE IF len \in 1..63 /\ at + 1 + len > Len(message) THEN ErrLabelOutOfRange
     ELSE <<"none">>

\* C16: readDnsName takes no byte from outside the message: the only index
\* outside it that the code evaluates is the second byte of a pointer that
\* stands in the last byte, which yields undefined and the truncated-pointer
\* error.  A start offset or a continuation at or past the end, a truncated
\* pointer, a pointer to a target outside the message, a length byte in
\* 64..191 and a label that reaches past the end each end the call with their
\* own error, on the turn that meets them; the only other error is that of the
\* safety limit.
C16_MalformedNamesThrow ==
  frame.op = "readDnsName" =>
    /\ \A i \in frame.reads :
         /\ i >= 0
         /\ i >= Len(frame.message) =>
              /\ i = Len(frame.message)
              /\ frame.pc = "thrown"
              /\ frame.err = ErrPointerTruncated
    /\ \A i \in DOMAIN frame.path :
         Malformed(frame.message, frame.path[i]) # <<"none">> =>
           /\ i = Len(frame.path)
           /\ frame.pc = "thrown"
           /\ frame.err = Malformed(frame.message, frame.path[i])
    /\ frame.pc = "thrown" =>
         \/ frame.err = ErrNameSafety
         \/ frame.err = Malformed(frame.message, frame.path[Len(frame.path)])
    /\ frame.pc = "returned" =>
         \A k \in DOMAIN frame.labels : Len(frame.labels[k]) \in 1..63

\* C16, witness: a call that followed a pointer to the last byte of the
\* message, found a pointer there, and threw the truncated-pointer error.
C16_TruncatedPointerReached ==
  /\ frame.op = "readDnsName"
  /\ frame.pc = "thrown"
  /\ frame.err = ErrPointerTruncated
  /\ frame.jumped
  /\ Len(frame.message) \in frame.reads
  /\ frame.currentOffset = Len(frame.message) - 1

\* The labels of a host name as the dots delimit them, the empty ones left out.
NormalizedLabels(hostname) ==
  SelectSeq(Split(hostname, "."), LAMBDA label : label # <<>>)

\* Every label has at most 63 characters and none but the first and the last
\* is empty.
EncodableHostname(hostname) ==
  LET labels == Split(hostname, ".")
  IN /\ \A k \in DOMAIN labels : Len(labels[k]) <= 63
     /\ \A k \in 2..(Len(labels) - 1) : labels[k] # <<>>

\* C13: for a host name whose labels have at most 63 characters and that has
\* no empty interior label, buildDnsQueryMessage returns a message, and
\* readDnsName at offset 12 of that message returns the labels joined by dots
\* and a length equal to the sum of 1 + the length of each label, plus 1.
C13_QuestionNameRoundTrip ==
  (frame.op = "buildDohWireUrl" /\ ~frame.recordType.thrown
     /\ EncodableHostname(frame.hostname)) =>
    /\ ~frame.query.thrown
    /\ readDnsName(frame.query.val, 12) =
         Return([name |-> Join(NormalizedLabels(frame.hostname), <<".">>),
                 length |-> Len(Flatten(NormalizedLabels(frame.hostname)))
                              + Len(NormalizedLabels(frame.hostname)) + 1])

\* A string of decimal digits that denotes a positive integer.
PositiveIntegerString(s) ==
  /\ s # <<>>
  /\ AllDigits(s)
  /\ DecimalValue(s) > 0

RecordTypeNames ==
  {<<"A">>, <<"A", "A", "A", "A">>, <<"H", "T", "T", "P", "S">>}

\* C17: recordTypeToNumber maps A to 1, AAAA to 28 and HTTPS to 65 (in either
\* case); any other string is mapped to its number if it is a positive integer
\* string and raises the unsupported-record-type error if it is not; and the
\* QTYPE of the query built is the number the type was mapped to.
C17_RecordTypeMapping ==
  frame.op = "buildDohWireUrl" =>
    /\ toUpperCase(frame.type) = <<"A">> => frame.recordType = Return(Num(1))
    /\ toUpperCase(frame.type) = <<"A", "A", "A", "A">> =>
         frame.recordType = Return(Num(28))
    /\ toUpperCase(frame.type) = <<"H", "T", "T", "P", "S">> =>
         frame.recordType = Return(Num(65))
    /\ toUpperCase(frame.type) \notin RecordTypeNames =>
         IF PositiveIntegerString(frame.type)
         THEN frame.recordType = Return(Num(DecimalValue(frame.type)))
         ELSE /\ frame.recordType.thrown
              /\ frame.recordType.err = Error(ErrUnsupportedType)
    /\ (~frame.recordType.thrown /\ ~frame.query.thrown) =>
         frame.recordType.val =
           Num(Uint16At(frame.query.val, Len(frame.query.val) - 4))

\* The base64 text of each value of SvcValues (RFC 4648).
Base64Of(value) ==
  IF value = <<>> THEN <<>>
  ELSE IF value = <<255>> THEN <<"/", "w", "=", "=">>
  ELSE IF value = <<222, 173>> THEN <<"3", "q", "0", "=">>
  ELSE <<"A", "B", "C", "D">>

\* Whether s ends with suffix.
EndsWith(s, suffix) ==
  /\ Len(suffix) <= Len(s)
  /\ SubSeq(s, Len(s) - Len(suffix) + 1, Len(s)) = suffix

\* The parameters of the frame with key 5.
EchParams == {i \in DOMAIN frame.params : frame.params[i].key = 5}

\* C14: on an rdata block made of a priority, a target name and parameters
\* that fill rdlength exactly, parseHttpsSvcbRecord returns hasEch true exactly
\* when a parameter has key 5; the description then ends with
\* " echconfig(base64)=" and the base64 text of the value of the last such
\* parameter, or with " echconfig" alone when that value is empty (its base64
\* text being empty).  Priority 1, the root target and the one parameter
\* key 5 = 0xDEAD give "... echconfig(base64)=3q0=".
C14_EchParameterReported ==
  (frame.op = "parseHttpsSvcbRecord"
     /\ frame.rdlength = Len(SvcRdata(frame.priority, frame.target, frame.params))) =>
    /\ ~frame.result.thrown
    /\ frame.result.val.hasEch <=> EchParams # {}
    /\ EchParams # {} =>
         \E last \in EchParams :
           /\ \A i \in EchParams : i <= last
           /\ EndsWith(frame.result.val.description,
                       IF frame.params[last].value = <<>> THEN StrEchconfig
                       ELSE StrDescEch \o Base64Of(frame.params[last].value))
    /\ (frame.priority = 1 /\ frame.target = <<0>>
          /\ frame.params = <<[key |-> 5, value |-> <<222, 173>>]>>) =>
         frame.result.val.description =
           <<"p", "r", "i", "o", "r", "i", "t", "y", "=", "1", " ", "t", "a",
            "r", "g", "e", "t", "=", ".", " ", "p", "a", "r", "a", "m", "s",
            "=", "[", "k", "e", "y", "5", "(", "2", "B", ")", "]", " ", "e",
            "c", "h", "c", "o", "n", "f", "i", "g", "(", "b", "a", "s", "e",
            "6", "4", ")", "=", "3", "q", "0", "=">>

\* C14, witness: the record of priority 1, root target and parameters key 1
\* and key 5 = 0xDEAD was parsed with its full length and reported with ECH.
C14_KeyFiveValueReached ==
  /\ frame.op = "parseHttpsSvcbRecord"
  /\ frame.priority = 1
  /\ frame.target = <<0>>
  /\ Len(frame.params) = 2
  /\ frame.params[1].key = 1
  /\ frame.params[2] = [key |-> 5, value |-> <<222, 173>>]
  /\ frame.rdlength = Len(SvcRdata(frame.priority, frame.target, frame.params))
  /\ frame.result.val.hasEch
  /\ EndsWith(frame.result.val.description, <<"=", "3", "q", "0", "=">>)


\* ---------------------------------------------------------------- C18
\* Where answer j of a response begins (the type of the question does not
\* change the length).
RecordStart(answers, j) == Len(WireResponse(1, SubSeq(answers, 1, j - 1)))

\* The answers whose owner name is whole in the message and whose fixed fields
\* or rdata, as declared, run past its end.
RecordsCutShort(answers, message) ==
  {k \in 1..Len(answers) :
     /\ RecordStart(answers, k) + 2 <= Len(message)
     /\ Len(message) < RecordStart(answers, k + 1)}

\* The text of the address an answer carries, none for another answer.
AddressText(answer) ==
  IF answer = Response4(1) THEN <<<<"1", "9", "2", ".", "0", ".", "2", ".", "1">>>>
  ELSE IF answer = Response4(2) THEN <<<<"1", "9", "2", ".", "0", ".", "2", ".", "2">>>>
  ELSE IF answer = Response6
  THEN <<<<"2", "0", "0", "1", ":", "d", "b", "8", ":", "0", ":", "0", ":", "0",
           ":", "0", ":", "0", ":", "1">>>>
  ELSE <<>>

\* The addresses of a list of answers, each once, in order of first appearance.
RECURSIVE AddressesOf(_)
AddressesOf(answers) ==
  IF answers = <<>> THEN <<>>
  ELSE IF AddressText(answers[Len(answers)]) = <<>>
          \/ AddressText(answers[Len(answers)])[1]
               \in Range(AddressesOf(SubSeq(answers, 1, Len(answers) - 1)))
  THEN AddressesOf(SubSeq(answers, 1, Len(answers) - 1))
  ELSE AddressesOf(SubSeq(answers, 1, Len(answers) - 1))
         \o AddressText(answers[Len(answers)])

AddressesBeforeCut ==
  frame.op = "extractIpsFromDnsMessage" =>
    /\ ~(frame.result.thrown /\ frame.result.err = Error(ErrRange))
    /\ \A k \in RecordsCutShort(frame.answers, frame.message) :
         /\ ~frame.result.thrown
         /\ frame.result.val = AddressesOf(SubSeq(frame.answers, 1, k - 1))

HttpsRecordBeforeCut ==
  frame.op = "findHttpsRecordInDnsMessage" =>
    /\ frame.result.error # normalizeErrorMessage(Error(ErrRange))
    /\ \A k \in RecordsCutShort(frame.answers, frame.message) :
         /\ frame.result.error = <<>>
         /\ frame.result =
              findHttpsRecordInDnsMessage(
                WireResponse(HTTPS_RECORD_TYPE, SubSeq(frame.answers, 1, k - 1)))

\* C18: behind a header and a question section that parse, an answer whose
\* fixed fields or declared rdata run past the end of the message ends the
\* parsing: extractIpsFromDnsMessage returns the addresses of the answers
\* before it and findHttpsRecordInDnsMessage what the answers before it give,
\* neither throws, and no read of a 16-bit field is outside the message.
C18_CutRecordEndsParsing == AddressesBeforeCut /\ HttpsRecordBeforeCut

\* C18 witness: the second answer is cut inside its rdata and the address of
\* the first is returned.
C18_AddressBeforeCutReturnedReached ==
  /\ frame.op = "extractIpsFromDnsMessage"
  /\ 2 \in RecordsCutShort(frame.answers, frame.message)
  /\ Len(frame.message) > RecordStart(frame.answers, 2) + 12
  /\ ~frame.result.thrown
  /\ Len(frame.result.val) = 1


\* ---------------------------------------------------------------- C19
\* The text of an HTTPS answer of the responses.
RecordText(answer) ==
  IF answer = HttpsAlias THEN StrPriority \o <<"0">> \o StrTarget \o <<".">>
  ELSE IF answer \in {HttpsPlain(1), HttpsPlain(2)}
  THEN StrPriority \o (IF answer = HttpsPlain(1) THEN <<"1">> ELSE <<"2">>)
         \o StrTarget \o <<".">> \o StrParamsOpen
         \o <<"k", "e", "y", "1", "(", "3", "B", ")", "]">>
  ELSE StrPriority \o (IF answer = HttpsEch(3) THEN <<"3">> ELSE <<"4">>)
         \o StrTarget \o <<".">> \o StrParamsOpen
         \o <<"k", "e", "y", "5", "(", "2", "B", ")", "]">>
         \o StrDescEch \o <<"3", "q", "0", "=">>

\* The first of a set of positions.
FirstOf(positions) == CHOOSE k \in positions : \A j \in positions : k <= j

\* What the answers of a whole response must give: the first answer with ech,
\* found; else the first HTTPS answer, not found; else no record.
FirstEchElseFirstHttps(answers, withEch, https) ==
  IF withEch # {}
  THEN [found |-> TRUE, record |-> RecordText(answers[FirstOf(withEch)]),
        error |-> <<>>]
  ELSE IF https # {}
  THEN [found |-> FALSE, record |-> RecordText(answers[FirstOf(https)]),
        error |-> <<>>]
  ELSE [found |-> FALSE, record |-> NoRecord, error |-> <<>>]

\* C19: on a whole response findHttpsRecordInDnsMessage returns the first HTTPS
\* answer that carries ech, in answer order, with found = true; when none
\* does, the first HTTPS answer of the response with found = false.
C19_FirstEchElseFirstHttpsRecord ==
  (/\ frame.op = "findHttpsRecordInDnsMessage"
   /\ frame.message = WireResponse(HTTPS_RECORD_TYPE, frame.answers)) =>
    frame.result =
      FirstEchElseFirstHttps(
        frame.answers,
        {k \in DOMAIN frame.answers : frame.answers[k] \in {HttpsEch(3), HttpsEch(4)}},
        {k \in DOMAIN frame.answers : frame.answers[k] # ResponseCname})


\* ---------------------------------------------------------------- C20
\* The settled results that carry only a record without ech.
CarriesFallback(p) ==
  /\ ech[p].outcome = "fulfilled"
  /\ SettledEch(ech[p]).record = StrDescFallback

\* The verdict of runEchCheck is that of the references' found flags.
EchEnabledIffReferenceFound ==
  (pc = "done" /\ check.kind = "ech") =>
    (report.ech_enabled <=> \E p \in References : SettledEch(ech[p]).found)

AttemptsMade(q) ==
  q.attempts \o (IF q.outcome = "fulfilled" /\ Len(q.attempts) < Len(q.tried)
                 THEN q.value ELSE <<>>)

\* The media types that name JSON, and the other types under text/.
JsonMediaTypes ==
  {"application/dns-json", "application/json", "Application/JSON; charset=utf-8",
   "text/json"}
OtherTextMediaTypes == {"text/html", "text/plain"}

\* The decode path of an attempt that got a response is the one its
\* Content-Type names, `textTypes` being the types kept as text.
DecodePathOf(attempt, succeeded, textTypes) ==
  attempt.status # NullNum =>
    IF attempt.content_type \in JsonMediaTypes
    THEN attempt.response_format = "json"
    ELSE IF attempt.content_type \in textTypes
    THEN attempt.response_format = "text" /\ ~succeeded
    ELSE attempt.response_format = "wire"

DecodePaths(textTypes) ==
  /\ \A i \in DOMAIN doh["target"].attempts :
       DecodePathOf(doh["target"].attempts[i], doh["target"].attempts[i].ok,
                    textTypes)
  /\ \A i \in DOMAIN AttemptsMade(ech["target"]) :
       DecodePathOf(AttemptsMade(ech["target"])[i],
                    AttemptsMade(ech["target"])[i].found, textTypes)

\* C21 as stated: the JSON types go to the JSON decode path, the other types
\* under text/ are kept as text and never succeed, every other Content-Type and
\* a missing one go to the wire decode path, whatever encoding was requested.
C21_ClassifiedByTextSlash == DecodePaths(OtherTextMediaTypes)

\* C21, amended: as stated, but application/text is kept as text too and goes
\* to the wire decode path no more than the types under text/.
C21_ClassifiedByContentType ==
  DecodePaths(OtherTextMediaTypes \cup {"application/text"})

\* C21 witness: the JSON-mode attempt was answered with application/text and
\* kept as text, the wire-mode attempt with a JSON type and decoded as JSON.
C21_ApplicationTextKeptReached ==
  /\ Len(doh["target"].attempts) = 2
  /\ doh["target"].attempts[1].mode = "json"
  /\ doh["target"].attempts[1].content_type = "application/text"
  /\ doh["target"].attempts[1].response_format = "text"
  /\ doh["target"].attempts[2].mode = "wire"
  /\ doh["target"].attempts[2].content_type = "Application/JSON; charset=utf-8"
  /\ doh["target"].attempts[2].response_format = "json"


\* ---------------------------------------------------------------- C22
\* The reported result carries the fields of an attempt.
CarriesFieldsOf(result, attempt) ==
  /\ result.status = attempt.status
  /\ result.ok = attempt.ok
  /\ result.ips = attempt.ips
  /\ result.latency_ms = attempt.latency_ms
  /\ result.response_format = attempt.response_format
  /\ result.content_type = attempt.content_type
  /\ result.raw = attempt.raw
  /\ result.error = attempt.error

\* The mark of the failure combiner: no success, the errors of both attempts
\* joined.
CombinedOf(result, attempts) ==
  /\ ~result.ok
  /\ result.error = attempts[1].error \o MsgJoin \o attempts[2].error

FirstSuccessReported(result, attempts) ==
  /\ attempts[1].mode = "json"
  /\ attempts[2].mode = "wire"
  /\ attempts[1].ok => CarriesFieldsOf(result, attempts[1])
  /\ (~attempts[1].ok /\ attempts[2].ok) => CarriesFieldsOf(result, attempts[2])
  /\ CombinedOf(result, attempts) <=> (~attempts[1].ok /\ ~attempts[2].ok)

\* C22: the result fetchDohAnswer reports carries the fields of the JSON
\* attempt when that succeeded, of the wire attempt when only that succeeded,
\* and is the combination of both attempts exactly when neither succeeded.
C22_FirstSuccessfulAttemptReported ==
  doh["target"].outcome = "fulfilled" =>
    FirstSuccessReported(doh["target"].value[1], doh["target"].attempts)

\* C22 witness: both attempts succeeded, with different addresses, and the
\* addresses of the JSON attempt are reported.
C22_BothSucceededJsonReportedReached ==
  /\ doh["target"].outcome = "fulfilled"
  /\ doh["target"].attempts[1].ok
  /\ doh["target"].attempts[2].ok
  /\ doh["target"].attempts[1].ips # doh["target"].attempts[2].ips
  /\ doh["target"].value[1].ips = doh["target"].attempts[1].ips


\* ---------------------------------------------------------------- C23
\* The last / the first value of a list that is not `null`, `null` if there is
\* none.
LastKnown(values, null) ==
  IF \A i \in DOMAIN values : values[i] = null THEN null
  ELSE values[CHOOSE i \in DOMAIN values :
                /\ values[i] # null
                /\ \A j \in DOMAIN values : values[j] # null => j <= i]

FirstKnown(values, null) ==
  IF \A i \in DOMAIN values : values[i] = null THEN null
  ELSE values[CHOOSE i \in DOMAIN values :
                /\ values[i] # null
                /\ \A j \in DOMAIN values : values[j] # null => i <= j]

\* The query has settled with a result merged from its failed attempts.
DohCombined ==
  /\ doh["target"].outcome = "fulfilled"
  /\ \A i \in DOMAIN doh["target"].attempts : ~doh["target"].attempts[i].ok

EchCombined ==
  /\ ech["target"].outcome = "fulfilled"
  /\ Len(ech["target"].attempts) = 2

StatusesOf(attempts) == [i \in DOMAIN attempts |-> attempts[i].status]
LatenciesOf(attempts) == [i \in DOMAIN attempts |-> attempts[i].latency_ms]

\* C23: the status of a merged result is the first status that is not null
\* from the last attempt backwards, null if every attempt's is, and so is its
\* latency, for combineDohFailures and combineEchFailures alike.
C23_StatusAndLatencyScannedBackward ==
  /\ DohCombined =>
       /\ doh["target"].value[1].status =
            LastKnown(StatusesOf(doh["target"].attempts), NullNum)
       /\ doh["target"].value[1].latency_ms =
            LastKnown(LatenciesOf(doh["target"].attempts), NullNum)
  /\ EchCombined =>
       /\ ech["target"].value[1].status =
            LastKnown(StatusesOf(ech["target"].attempts), NullNum)
       /\ ech["target"].value[1].latency_ms =
            LastKnown(LatenciesOf(ech["target"].attempts), NullNum)

\* C23 witness: both failed attempts got a response, with different statuses,
\* and the status of the wire attempt is reported.
C23_LaterStatusReportedReached ==
  /\ DohCombined
  /\ doh["target"].attempts[1].status = 200
  /\ doh["target"].attempts[2].status = 503
  /\ doh["target"].value[1].status = 503


\* ---------------------------------------------------------------- C24
FormatsOf(attempts) == [i \in DOMAIN attempts |-> attempts[i].response_format]
TypesOf(attempts) == [i \in DOMAIN attempts |-> attempts[i].content_type]

\* The value of the last attempt when it is known, else the first known one.
LastElseFirstKnown(values, null) ==
  IF values[Len(values)] # null THEN values[Len(values)]
  ELSE FirstKnown(values, null)

\* C24 as stated: the response format of a merged result is the first format
\* other than unknown of the attempts in their order (unknown if there is
\* none), its content type the first that is not null (null if there is none).
C24_FormatAndTypeFirstKnown ==
  /\ DohCombined =>
       /\ doh["target"].value[1].response_format =
            FirstKnown(FormatsOf(doh["target"].attempts), "unknown")
       /\ doh["target"].value[1].content_type =
            FirstKnown(TypesOf(doh["target"].attempts), NullCt)
  /\ EchCombined =>
       /\ ech["target"].value[1].response_format =
            FirstKnown(FormatsOf(ech["target"].attempts), "unknown")
       /\ ech["target"].value[1].content_type =
            FirstKnown(TypesOf(ech["target"].attempts), NullCt)

\* C24, amended: the response format of a merged result is that of the last
\* attempt unless it is unknown, and only then the first format other than
\* unknown of the attempts in their order (unknown if there is none); its
\* content type is that of the last attempt unless it is null, and only then
\* the first that is not null (null if there is none).
C24_FormatAndTypeOfLastElseFirstKnown ==
  /\ DohCombined =>
       /\ doh["target"].value[1].response_format =
            LastElseFirstKnown(FormatsOf(doh["target"].attempts), "unknown")
       /\ doh["target"].value[1].content_type =
            LastElseFirstKnown(TypesOf(doh["target"].attempts), NullCt)
  /\ EchCombined =>
       /\ ech["target"].value[1].response_format =
            LastElseFirstKnown(FormatsOf(ech["target"].attempts), "unknown")
       /\ ech["target"].value[1].content_type =
            LastElseFirstKnown(TypesOf(ech["target"].attempts), NullCt)

\* C24 witness: the JSON-mode attempt was decoded as JSON, the wire-mode
\* attempt kept as text, and the merged result reports the text.
C24_LastFormatReportedReached ==
  /\ EchCombined
  /\ ech["target"].attempts[1].response_format = "json"
  /\ ech["target"].attempts[1].content_type = "application/json"
  /\ ech["target"].attempts[2].response_format = "text"
  /\ ech["target"].attempts[2].content_type = "text/html"
  /\ ech["target"].value[1].response_format = "text"
  /\ ech["target"].value[1].content_type = "text/html"


\* ---------------------------------------------------------------- C25
\* C25: the result of fetchHttpsRecord lists in attempted_formats the
\* encodings the call tried, in the order they were tried: json alone when the
\* JSON attempt found ECH, json and wire when the wire attempt was made,
\* whether it found ECH or the two attempts were merged.
C25_AttemptedFormatsAreTheEncodingsTried ==
  ech["target"].outcome = "fulfilled" =>
    ech["target"].value[1].attempted_formats = ech["target"].tried


\* ---------------------------------------------------------------- C26
\* The requests of an HTTPS query that cannot be constructed: both when the
\* endpoint is no URL, the wire request also when the domain is empty or has
\* a label too long for a DNS query.
ConstructionFails(mode) ==
  \/ ~check.targetValid
  \/ mode = "wire" /\ check.domain # "ok"

SynthesizedFailure(result) ==
  /\ ~result.found
  /\ result.status = NullNum
  /\ result.latency_ms = NullNum
  /\ result.error # <<>>

\* C26 as stated: when the construction of either request of an HTTPS query
\* fails, the query's result is a synthesized failure and the query has issued
\* no HTTP call.
C26_NoCallWhenEitherRequestFails ==
  (/\ check.kind = "fetchHttps"
   /\ ech["target"].outcome = "fulfilled"
   /\ \E mode \in {"json", "wire"} : ConstructionFails(mode)) =>
    /\ SynthesizedFailure(ech["target"].value[1])
    /\ ech["target"].calls = <<>>

\* C26, amended: an attempt whose request cannot be constructed is a
\* synthesized failure and issues no HTTP call, while the attempt in the other
\* encoding is made as usual; when neither request can be constructed the
\* query issues no HTTP call and its result is a synthesized failure.
C26_NoCallForTheRequestThatFails ==
  check.kind = "fetchHttps" =>
    /\ \A i \in DOMAIN AttemptsMade(ech["target"]) :
         IF ConstructionFails(ech["target"].tried[i])
         THEN /\ SynthesizedFailure(AttemptsMade(ech["target"])[i])
              /\ ech["target"].fetches[i] = "none"
         ELSE ech["target"].fetches[i] # "none"
    /\ ech["target"].calls =
         SelectSeq(ech["target"].tried, LAMBDA mode : ~ConstructionFails(mode))
    /\ (/\ ech["target"].outcome = "fulfilled"
        /\ \A mode \in {"json", "wire"} : ConstructionFails(mode)) =>
         /\ SynthesizedFailure(ech["target"].value[1])
         /\ ech["target"].calls = <<>>

\* C26 witness: the domain has a label too long for a DNS query, the JSON
\* request was sent and answered, the wire request was never sent, and the
\* result has the status of the JSON answer.
C26_JsonCallWithoutWireCallReached ==
  /\ check.kind = "fetchHttps"
  /\ check.domain = "longlabel"
  /\ ech["target"].outcome = "fulfilled"
  /\ ech["target"].calls = <<"json">>
  /\ ech["target"].fetches = <<"ok", "none">>
  /\ ech["target"].value[1].status = 200


\* ---------------------------------------------------------------- C27
\* The error of an attempt whose response was decoded is the plain message of
\* a response without the record looked for, or begins with the prefix of the
\* decoder that failed.
DecodeErrorMarked(attempt) ==
  attempt.error # <<>> =>
    IF attempt.response_format = "json"
    THEN \/ attempt.error \in {MsgNoARecordJson, MsgNoEchRecord}
         \/ MatchAt(attempt.error, 1, MsgJsonParsePrefix)
    ELSE IF attempt.response_format = "wire"
    THEN \/ attempt.error \in {MsgNoARecordWire, MsgNoEchRecord}
         \/ MatchAt(attempt.error, 1, MsgWireParsePrefix)
    ELSE TRUE

DohDecodeErrorsMarked ==
  \A i \in DOMAIN doh["target"].attempts :
    DecodeErrorMarked(doh["target"].attempts[i])

\* C27: in A-record attempts and in HTTPS attempts alike, the error of a DNS
\* message that could not be decoded begins with the wire-decode prefix and the
\* error of a JSON body that could not be decoded with the JSON-decode prefix;
\* no other error of a decoded response is left but that of a missing record.
C27_DecodeFailuresCarryStagePrefix ==
  /\ DohDecodeErrorsMarked
  /\ \A i \in DOMAIN AttemptsMade(ech["target"]) :
       DecodeErrorMarked(AttemptsMade(ech["target"])[i])


\* ---------------------------------------------------------------- C28
\* The token a text names: the one behind its ech phrase, none without one.
TokenNamed(parts) == IF parts.phrase = <<>> THEN NullStr ELSE parts.token

\* C28: extractEchConfigString returns the token named by the record of a
\* result that has found = true and a record; otherwise the token named by the
\* raw payload when that is a text: the token behind ech= or
\* echconfig(base64)=, without its quotes when it is quoted; and null when
\* there is no such token.
C28_TokenOfRecordElseOfRawText ==
  frame.op = "extractEchConfigString" =>
    frame.value =
      IF frame.layout = "no text" THEN NullStr ELSE TokenNamed(frame.parts)

\* ---------------------------------------------------------------- C29
\* C29: for every wire-mode HTTPS result with found = true, the ECH
\* configuration string extractEchConfigString reads from it is the whole
\* base64 text of the value of the record's parameter of key 5: it is not
\* absent, not a proper prefix of that text and not a longer string, for the
\* empty value and for values whose base64 text holds any letter.
C29_WireConfigStringIsWholeBase64 ==
  (frame.op = "wireEchConfigString" /\ frame.result.found) =>
    frame.value = bytesToBase64(frame.echValue)

\* ---------------------------------------------------------------- C30
\* Whether the chain of labels and pointers that begins at `offset` reaches a
\* zero byte: every offset of the chain is inside the message and is none of
\* `visited`, every pointer has its second byte and points inside the
\* message, every label is of 63 bytes at most and ends inside the message.
RECURSIVE NameChainEnds(_, _, _)
NameChainEnds(message, offset, visited) ==
  IF offset \in visited \/ offset >= Len(message) THEN FALSE
  ELSE LET len == ByteAt(message, offset)
       IN IF len >= 192
          THEN /\ offset + 1 < Len(message)
               /\ (len % 64) * 256 + ByteAt(message, offset + 1) < Len(message)
               /\ NameChainEnds(message,
                                (len % 64) * 256 + ByteAt(message, offset + 1),
                                visited \cup {offset})
          ELSE IF len = 0 THEN TRUE
          ELSE /\ len <= 63
               /\ offset + 1 + len <= Len(message)
               /\ NameChainEnds(message, offset + 1 + len, visited \cup {offset})

\* The call of the frame is on a well-formed name.
WellFormedName ==
  /\ frame.op = "readDnsName"
  /\ NameChainEnds(frame.message, frame.offset, {})

\* C30: a call of readDnsName on a message and an offset from which the chain
\* of labels and pointers reaches a zero byte, without coming to an offset
\* twice and without another malformation, throws nothing, the safety-limit
\* error included: it has begun at most message.length turns, each at an
\* offset of its own, and it returns once it has read the zero byte.
C30_CapSparesWellFormedNames ==
  WellFormedName =>
    /\ frame.pc # "thrown"
    /\ Len(frame.path) <= Len(frame.message)
    /\ Cardinality(Range(frame.path)) = Len(frame.path)
    /\ frame.pc = "returned" <=>
         (frame.path # <<>>
            /\ ByteAt(frame.message, frame.path[Len(frame.path)]) = 0)

\* C30, witness: a name of two labels reached through a pointer, in a message
\* of five bytes, was returned after four turns.
C30_FourTurnsInFiveBytesReached ==
  /\ WellFormedName
  /\ frame.pc = "returned"
  /\ frame.jumped
  /\ Len(frame.message) = 5
  /\ Len(frame.path) = 4
  /\ Len(frame.labels) = 2

====
